---- MODULE Spec2Model ----
(***************************************************************************)
(* Model of the pseudo-linux command simulator (src/L2.c and               *)
(* src/linux-commands.c): an in-memory directory tree with a current       *)
(* directory, the commands that read and change it, and the recursive      *)
(* release of the tree when the session ends.                              *)
(*                                                                         *)
(* A directory node is a record; a node handle (the C pointer) is the      *)
(* node's index in the sequence dirs, 0 standing for the NULL pointer.     *)
(* files[] + file_count and subdirs[] + subdir_count are modelled as the   *)
(* sequences of their live entries (Len = the count).                      *)
(***************************************************************************)
EXTENDS Integers, Sequences, FiniteSets, TLC

VARIABLES
    variant,    \* which program runs the session: "L2" or "LC"
    mode,       \* "tty": any command may be typed; "script": stdin is a file
    script,     \* script mode: the lines of the file given as standard input
    stdin,      \* the lines of script not yet read
    dirs,       \* the heap of struct Dir nodes, indexed by handle
    heap,       \* results of the coming malloc calls; <<>>: all succeed
    root,       \* main's root
    cwd,        \* main's cwd
    pc,         \* "run" (command loop), "free" (teardown), "done",
                \* "crashed" (killed: a read through NULL, a store past
                \* parts), "undefined" (going on after a store past parts has
                \* hit what main reads again: from there on the source says
                \* nothing of the process, and root, cwd and dirs no longer
                \* describe it)
    cmd,        \* the tokens of the last command line read
    outcome,    \* kind of the message the last command printed
    out,        \* text printed by the last pwd / ls
    stack,      \* call stack of the recursive teardown: frames [d, i]
    released,   \* handles passed to free(), in order
    uaf         \* TRUE once a field of a released node has been read

vars == <<variant, mode, script, stdin, dirs, heap, root, cwd, pc, cmd,
          outcome, out, stack, released, uaf>>

(***************************************************************************)
(* Program constants                                                       *)
(***************************************************************************)
NAME_LEN == 32
MAX_FILES == 16
MAX_SUBDIRS == 16
MAX_DEPTH == 64
PARTS_LEN == 64     \* const char *parts[64] of linux-commands.c
PERM_LEN == 8
LINE_LEN == 128

(***************************************************************************)
(* Bounds of the exploration                                               *)
(***************************************************************************)
MaxDirs == 3        \* tty mode: nodes in the tree, root included
MaxTtyFiles == 2    \* tty mode: files in the tree

\* strtok never returns a token containing the delimiter, so the one-blank
\* string is free to stand for the NULL pointer strtok returns when the
\* line has no further token.
NULL_ARG == " "
NULL == 0

LongName == "xxxxxxxxxxxxxxxxxxxxxxxxxxxxxxxy"     \* 32 bytes
LongName2 == "xxxxxxxxxxxxxxxxxxxxxxxxxxxxxxxz"    \* 32 bytes, same first 31
CutName == "xxxxxxxxxxxxxxxxxxxxxxxxxxxxxxx"       \* 31 bytes

(***************************************************************************)
(* Helpers                                                                 *)
(***************************************************************************)

(***************************************************************************)
(* Strings and their bytes                                                 *)
(*                                                                         *)
(* The program handles a string as its bytes, the UTF-8 encoding of its    *)
(* characters; a string value here is a sequence of UTF-16 units.  A       *)
(* character below U+0080 is one unit and one byte; one of U+0080 ..       *)
(* U+07FF is one unit and two bytes; any other one below U+10000 is one    *)
(* unit and three bytes; one from U+10000 on is two units, a high          *)
(* surrogate (U+D800 .. U+DBFF) and a low one (U+DC00 .. U+DFFF), and four *)
(* bytes.  A byte 128 .. 255 that is not part of a whole character (what   *)
(* strncpy and fgets leave of a character they cut) is the unit            *)
(* U+DC00 + byte standing alone: a low surrogate that follows no high one  *)
(* is the encoding of no character, so no text holds it.                   *)
(*                                                                         *)
(* The tables list the units 256h + 128 .. 256h + 255 of each row h; a     *)
(* unit that is in no row is a character below U+0080.                     *)
(***************************************************************************)
\* rows 1 .. 256 of the units below U+10000; the rows of the surrogates
\* (217 .. 224) are empty here and taken from HighPairs and LowPairs
BmpRows ==
    <<" ¡¢£¤¥¦§¨©ª«¬­®¯°±²³´µ¶·¸¹º»¼½¾¿ÀÁÂÃÄÅÆÇÈÉÊËÌÍÎÏÐÑÒÓÔÕÖ×ØÙÚÛÜÝÞßàáâãäåæçèéêëìíîïðñòóôõö÷øùúûüýþÿ",
      "ƀƁƂƃƄƅƆƇƈƉƊƋƌƍƎƏƐƑƒƓƔƕƖƗƘƙƚƛƜƝƞƟƠơƢƣƤƥƦƧƨƩƪƫƬƭƮƯưƱƲƳƴƵƶƷƸƹƺƻƼƽƾƿǀǁǂǃǄǅǆǇǈǉǊǋǌǍǎǏǐǑǒǓǔǕǖǗǘǙǚǛǜǝǞǟǠǡǢǣǤǥǦǧǨǩǪǫǬǭǮǯǰǱǲǳǴǵǶǷǸǹǺǻǼǽǾǿ",
      "ʀʁʂʃʄʅʆʇʈʉʊʋʌʍʎʏʐʑʒʓʔʕʖʗʘʙʚʛʜʝʞʟʠʡʢʣʤʥʦʧʨʩʪʫʬʭʮʯʰʱʲʳʴʵʶʷʸʹʺʻʼʽʾʿˀˁ˂˃˄˅ˆˇˈˉˊˋˌˍˎˏːˑ˒˓˔˕˖˗˘˙˚˛˜˝˞˟ˠˡˢˣˤ˥˦˧˨˩˪˫ˬ˭ˮ˯˰˱˲˳˴˵˶˷˸˹˺˻˼˽˾˿",
      "΀΁΂΃΄΅Ά·ΈΉΊ΋Ό΍ΎΏΐΑΒΓΔΕΖΗΘΙΚΛΜΝΞΟΠΡ΢ΣΤΥΦΧΨΩΪΫάέήίΰαβγδεζηθικλμνξοπρςστυφχψωϊϋόύώϏϐϑϒϓϔϕϖϗϘϙϚϛϜϝϞϟϠϡϢϣϤϥϦϧϨϩϪϫϬϭϮϯϰϱϲϳϴϵ϶ϷϸϹϺϻϼϽϾϿ",
      "Ҁҁ҂҃҄҅҆҇҈҉ҊҋҌҍҎҏҐґҒғҔҕҖҗҘҙҚқҜҝҞҟҠҡҢңҤҥҦҧҨҩҪҫҬҭҮүҰұҲҳҴҵҶҷҸҹҺһҼҽҾҿӀӁӂӃӄӅӆӇӈӉӊӋӌӍӎӏӐӑӒӓӔӕӖӗӘәӚӛӜӝӞӟӠӡӢӣӤӥӦӧӨөӪӫӬӭӮӯӰӱӲӳӴӵӶӷӸӹӺӻӼӽӾӿ",
      "րցւփքօֆևֈ։֊֋֌֍֎֏֐ְֱֲֳִֵֶַָֹֺֻּֽ֑֖֛֢֣֤֥֦֧֪֚֭֮֒֓֔֕֗֘֙֜֝֞֟֠֡֨֩֫֬֯־ֿ׀ׁׂ׃ׅׄ׆ׇ׈׉׊׋׌׍׎׏אבגדהוזחטיךכלםמןנסעףפץצקרשת׫׬׭׮ׯװױײ׳״׵׶׷׸׹׺׻׼׽׾׿",
      "ڀځڂڃڄڅچڇڈډڊڋڌڍڎڏڐڑڒړڔڕږڗژڙښڛڜڝڞڟڠڡڢڣڤڥڦڧڨکڪګڬڭڮگڰڱڲڳڴڵڶڷڸڹںڻڼڽھڿۀہۂۃۄۅۆۇۈۉۊۋیۍێۏېۑےۓ۔ەۖۗۘۙۚۛۜ۝۞ۣ۟۠ۡۢۤۥۦۧۨ۩۪ۭ۫۬ۮۯ۰۱۲۳۴۵۶۷۸۹ۺۻۼ۽۾ۿ",
      "ހށނރބޅކއވމފދތލގޏސޑޒޓޔޕޖޗޘޙޚޛޜޝޞޟޠޡޢޣޤޥަާިީުޫެޭޮޯްޱ޲޳޴޵޶޷޸޹޺޻޼޽޾޿߀߁߂߃߄߅߆߇߈߉ߊߋߌߍߎߏߐߑߒߓߔߕߖߗߘߙߚߛߜߝߞߟߠߡߢߣߤߥߦߧߨߩߪ߲߫߬߭߮߯߰߱߳ߴߵ߶߷߸߹ߺ߻߼߽߾߿",
      "ࢀࢁࢂࢃࢄࢅࢆࢇ࢈ࢉࢊࢋࢌࢍࢎ࢏࢐࢑࢒࢓࢔࢕࢖࢙࢚࢛ࢗ࢘࢜࢝࢞࢟ࢠࢡࢢࢣࢤࢥࢦࢧࢨࢩࢪࢫࢬࢭࢮࢯࢰࢱࢲࢳࢴࢵࢶࢷࢸࢹࢺࢻࢼࢽࢾࢿࣀࣁࣂࣃࣄࣅࣆࣇࣈࣉ࣏࣐࣑࣒࣓࣊࣋࣌࣍࣎ࣔࣕࣖࣗࣘࣙࣚࣛࣜࣝࣞࣟ࣠࣡࣢ࣰࣱࣲࣣࣦࣩ࣭࣮࣯ࣶࣹࣺࣤࣥࣧࣨ࣪࣫࣬ࣳࣴࣵࣷࣸࣻࣼࣽࣾࣿ",
      "ঀঁংঃ঄অআইঈউঊঋঌ঍঎এঐ঑঒ওঔকখগঘঙচছজঝঞটঠডঢণতথদধন঩পফবভমযর঱ল঳঴঵শষসহ঺঻়ঽািীুূৃৄ৅৆েৈ৉৊োৌ্ৎ৏৐৑৒৓৔৕৖ৗ৘৙৚৛ড়ঢ়৞য়ৠৡৢৣ৤৥০১২৩৪৫৬৭৮৯ৰৱ৲৳৴৵৶৷৸৹৺৻ৼ৽৾৿",
      "઀ઁંઃ઄અઆઇઈઉઊઋઌઍ઎એઐઑ઒ઓઔકખગઘઙચછજઝઞટઠડઢણતથદધન઩પફબભમયર઱લળ઴વશષસહ઺઻઼ઽાિીુૂૃૄૅ૆ેૈૉ૊ોૌ્૎૏ૐ૑૒૓૔૕૖૗૘૙૚૛૜૝૞૟ૠૡૢૣ૤૥૦૧૨૩૪૫૬૭૮૯૰૱૲૳૴૵૶૷૸ૹૺૻૼ૽૾૿",
      "஀஁ஂஃ஄அஆஇஈஉஊ஋஌஍எஏஐ஑ஒஓஔக஖஗஘ஙச஛ஜ஝ஞட஠஡஢ணத஥஦஧நனப஫஬஭மயரறலளழவஶஷஸஹ஺஻஼஽ாிீுூ௃௄௅ெேை௉ொோௌ்௎௏ௐ௑௒௓௔௕௖ௗ௘௙௚௛௜௝௞௟௠௡௢௣௤௥௦௧௨௩௪௫௬௭௮௯௰௱௲௳௴௵௶௷௸௹௺௻௼௽௾௿",
      "ಀಁಂಃ಄ಅಆಇಈಉಊಋಌ಍ಎಏಐ಑ಒಓಔಕಖಗಘಙಚಛಜಝಞಟಠಡಢಣತಥದಧನ಩ಪಫಬಭಮಯರಱಲಳ಴ವಶಷಸಹ಺಻಼ಽಾಿೀುೂೃೄ೅ೆೇೈ೉ೊೋೌ್೎೏೐೑೒೓೔ೕೖ೗೘೙೚೛೜ೝೞ೟ೠೡೢೣ೤೥೦೧೨೩೪೫೬೭೮೯೰ೱೲೳ೴೵೶೷೸೹೺೻೼೽೾೿",
      "඀ඁංඃ඄අආඇඈඉඊඋඌඍඎඏඐඑඒඓඔඕඖ඗඘඙කඛගඝඞඟචඡජඣඤඥඦටඨඩඪණඬතථදධන඲ඳපඵබභමඹයර඼ල඾඿වශෂසහළෆ෇෈෉්෋෌෍෎ාැෑිීු෕ූ෗ෘෙේෛොෝෞෟ෠෡෢෣෤෥෦෧෨෩෪෫෬෭෮෯෰෱ෲෳ෴෵෶෷෸෹෺෻෼෽෾෿",
      "຀ກຂ຃ຄ຅ຆງຈຉຊ຋ຌຍຎຏຐຑຒຓດຕຖທຘນບປຜຝພຟຠມຢຣ຤ລ຦ວຨຩສຫຬອຮຯະັາຳິີຶື຺ຸູົຼຽ຾຿ເແໂໃໄ໅ໆ໇່້໊໋໌ໍ໎໏໐໑໒໓໔໕໖໗໘໙໚໛ໜໝໞໟ໠໡໢໣໤໥໦໧໨໩໪໫໬໭໮໯໰໱໲໳໴໵໶໷໸໹໺໻໼໽໾໿",
      "྄ཱྀྀྂྃ྅྆྇ྈྉྊྋྌྍྎྏྐྑྒྒྷྔྕྖྗ྘ྙྚྛྜྜྷྞྟྠྡྡྷྣྤྥྦྦྷྨྩྪྫྫྷྭྮྯྰྱྲླྴྵྶྷྸྐྵྺྻྼ྽྾྿࿀࿁࿂࿃࿄࿅࿆࿇࿈࿉࿊࿋࿌࿍࿎࿏࿐࿑࿒࿓࿔࿕࿖࿗࿘࿙࿚࿛࿜࿝࿞࿟࿠࿡࿢࿣࿤࿥࿦࿧࿨࿩࿪࿫࿬࿭࿮࿯࿰࿱࿲࿳࿴࿵࿶࿷࿸࿹࿺࿻࿼࿽࿾࿿",
      "ႀႁႂႃႄႅႆႇႈႉႊႋႌႍႎႏ႐႑႒႓႔႕႖႗႘႙ႚႛႜႝ႞႟ႠႡႢႣႤႥႦႧႨႩႪႫႬႭႮႯႰႱႲႳႴႵႶႷႸႹႺႻႼႽႾႿჀჁჂჃჄჅ჆Ⴧ჈჉჊჋჌Ⴭ჎჏აბგდევზთიკლმნოპჟრსტუფქღყშჩცძწჭხჯჰჱჲჳჴჵჶჷჸჹჺ჻ჼჽჾჿ",
      "ᆀᆁᆂᆃᆄᆅᆆᆇᆈᆉᆊᆋᆌᆍᆎᆏᆐᆑᆒᆓᆔᆕᆖᆗᆘᆙᆚᆛᆜᆝᆞᆟᆠᆡᆢᆣᆤᆥᆦᆧᆨᆩᆪᆫᆬᆭᆮᆯᆰᆱᆲᆳᆴᆵᆶᆷᆸᆹᆺᆻᆼᆽᆾᆿᇀᇁᇂᇃᇄᇅᇆᇇᇈᇉᇊᇋᇌᇍᇎᇏᇐᇑᇒᇓᇔᇕᇖᇗᇘᇙᇚᇛᇜᇝᇞᇟᇠᇡᇢᇣᇤᇥᇦᇧᇨᇩᇪᇫᇬᇭᇮᇯᇰᇱᇲᇳᇴᇵᇶᇷᇸᇹᇺᇻᇼᇽᇾᇿ",
      "ኀኁኂኃኄኅኆኇኈ኉ኊኋኌኍ኎኏ነኑኒናኔንኖኗኘኙኚኛኜኝኞኟአኡኢኣኤእኦኧከኩኪካኬክኮኯኰ኱ኲኳኴኵ኶኷ኸኹኺኻኼኽኾ኿ዀ዁ዂዃዄዅ዆዇ወዉዊዋዌውዎዏዐዑዒዓዔዕዖ዗ዘዙዚዛዜዝዞዟዠዡዢዣዤዥዦዧየዩዪያዬይዮዯደዱዲዳዴድዶዷዸዹዺዻዼዽዾዿ",
      "ᎀᎁᎂᎃᎄᎅᎆᎇᎈᎉᎊᎋᎌᎍᎎᎏ᎐᎑᎒᎓᎔᎕᎖᎗᎘᎙᎚᎛᎜᎝᎞᎟ᎠᎡᎢᎣᎤᎥᎦᎧᎨᎩᎪᎫᎬᎭᎮᎯᎰᎱᎲᎳᎴᎵᎶᎷᎸᎹᎺᎻᎼᎽᎾᎿᏀᏁᏂᏃᏄᏅᏆᏇᏈᏉᏊᏋᏌᏍᏎᏏᏐᏑᏒᏓᏔᏕᏖᏗᏘᏙᏚᏛᏜᏝᏞᏟᏠᏡᏢᏣᏤᏥᏦᏧᏨᏩᏪᏫᏬᏭᏮᏯᏰᏱᏲᏳᏴᏵ᏶᏷ᏸᏹᏺᏻᏼᏽ᏾᏿",
      "ᒀᒁᒂᒃᒄᒅᒆᒇᒈᒉᒊᒋᒌᒍᒎᒏᒐᒑᒒᒓᒔᒕᒖᒗᒘᒙᒚᒛᒜᒝᒞᒟᒠᒡᒢᒣᒤᒥᒦᒧᒨᒩᒪᒫᒬᒭᒮᒯᒰᒱᒲᒳᒴᒵᒶᒷᒸᒹᒺᒻᒼᒽᒾᒿᓀᓁᓂᓃᓄᓅᓆᓇᓈᓉᓊᓋᓌᓍᓎᓏᓐᓑᓒᓓᓔᓕᓖᓗᓘᓙᓚᓛᓜᓝᓞᓟᓠᓡᓢᓣᓤᓥᓦᓧᓨᓩᓪᓫᓬᓭᓮᓯᓰᓱᓲᓳᓴᓵᓶᓷᓸᓹᓺᓻᓼᓽᓾᓿ",
      "ᖀᖁᖂᖃᖄᖅᖆᖇᖈᖉᖊᖋᖌᖍᖎᖏᖐᖑᖒᖓᖔᖕᖖᖗᖘᖙᖚᖛᖜᖝᖞᖟᖠᖡᖢᖣᖤᖥᖦᖧᖨᖩᖪᖫᖬᖭᖮᖯᖰᖱᖲᖳᖴᖵᖶᖷᖸᖹᖺᖻᖼᖽᖾᖿᗀᗁᗂᗃᗄᗅᗆᗇᗈᗉᗊᗋᗌᗍᗎᗏᗐᗑᗒᗓᗔᗕᗖᗗᗘᗙᗚᗛᗜᗝᗞᗟᗠᗡᗢᗣᗤᗥᗦᗧᗨᗩᗪᗫᗬᗭᗮᗯᗰᗱᗲᗳᗴᗵᗶᗷᗸᗹᗺᗻᗼᗽᗾᗿ",
      " ᚁᚂᚃᚄᚅᚆᚇᚈᚉᚊᚋᚌᚍᚎᚏᚐᚑᚒᚓᚔᚕᚖᚗᚘᚙᚚ᚛᚜᚝᚞᚟ᚠᚡᚢᚣᚤᚥᚦᚧᚨᚩᚪᚫᚬᚭᚮᚯᚰᚱᚲᚳᚴᚵᚶᚷᚸᚹᚺᚻᚼᚽᚾᚿᛀᛁᛂᛃᛄᛅᛆᛇᛈᛉᛊᛋᛌᛍᛎᛏᛐᛑᛒᛓᛔᛕᛖᛗᛘᛙᛚᛛᛜᛝᛞᛟᛠᛡᛢᛣᛤᛥᛦᛧᛨᛩᛪ᛫᛬᛭ᛮᛯᛰᛱᛲᛳᛴᛵᛶᛷᛸ᛹᛺᛻᛼᛽᛾᛿",
      "កខគឃងចឆជឈញដឋឌឍណតថទធនបផពភមយរលវឝឞសហឡអឣឤឥឦឧឨឩឪឫឬឭឮឯឰឱឲឳ឴឵ាិីឹឺុូួើឿៀេែៃោៅំះៈ៉៊់៌៍៎៏័៑្៓។៕៖ៗ៘៙៚៛ៜ៝៞៟០១២៣៤៥៦៧៨៩៪៫៬៭៮៯៰៱៲៳៴៵៶៷៸៹៺៻៼៽៾៿",
      "ᢀᢁᢂᢃᢄᢅᢆᢇᢈᢉᢊᢋᢌᢍᢎᢏᢐᢑᢒᢓᢔᢕᢖᢗᢘᢙᢚᢛᢜᢝᢞᢟᢠᢡᢢᢣᢤᢥᢦᢧᢨᢩᢪ᢫᢬᢭᢮᢯ᢰᢱᢲᢳᢴᢵᢶᢷᢸᢹᢺᢻᢼᢽᢾᢿᣀᣁᣂᣃᣄᣅᣆᣇᣈᣉᣊᣋᣌᣍᣎᣏᣐᣑᣒᣓᣔᣕᣖᣗᣘᣙᣚᣛᣜᣝᣞᣟᣠᣡᣢᣣᣤᣥᣦᣧᣨᣩᣪᣫᣬᣭᣮᣯᣰᣱᣲᣳᣴᣵ᣶᣷᣸᣹᣺᣻᣼᣽᣾᣿",
      "ᦀᦁᦂᦃᦄᦅᦆᦇᦈᦉᦊᦋᦌᦍᦎᦏᦐᦑᦒᦓᦔᦕᦖᦗᦘᦙᦚᦛᦜᦝᦞᦟᦠᦡᦢᦣᦤᦥᦦᦧᦨᦩᦪᦫ᦬᦭᦮᦯ᦰᦱᦲᦳᦴᦵᦶᦷᦸᦹᦺᦻᦼᦽᦾᦿᧀᧁᧂᧃᧄᧅᧆᧇᧈᧉ᧊᧋᧌᧍᧎᧏᧐᧑᧒᧓᧔᧕᧖᧗᧘᧙᧚᧛᧜᧝᧞᧟᧠᧡᧢᧣᧤᧥᧦᧧᧨᧩᧪᧫᧬᧭᧮᧯᧰᧱᧲᧳᧴᧵᧶᧷᧸᧹᧺᧻᧼᧽᧾᧿",
      "᪀᪁᪂᪃᪄᪅᪆᪇᪈᪉᪊᪋᪌᪍᪎᪏᪐᪑᪒᪓᪔᪕᪖᪗᪘᪙᪚᪛᪜᪝᪞᪟᪠᪡᪢᪣᪤᪥᪦ᪧ᪨᪩᪪᪫᪬᪭᪮᪯᪵᪶᪷᪸᪹᪺᪽᪰᪱᪲᪳᪴᪻᪼᪾ᪿᫀ᫃᫄᫊᫁᫂᫅᫆᫇᫈᫉᫋ᫌᫍᫎ᫏᫐᫑᫒᫓᫔᫕᫖᫗᫘᫙᫚᫛᫜᫝᫞᫟᫠᫡᫢᫣᫤᫥᫦᫧᫨᫩᫪᫫᫬᫭᫮᫯᫰᫱᫲᫳᫴᫵᫶᫷᫸᫹᫺᫻᫼᫽᫾᫿",
      "ᮀᮁᮂᮃᮄᮅᮆᮇᮈᮉᮊᮋᮌᮍᮎᮏᮐᮑᮒᮓᮔᮕᮖᮗᮘᮙᮚᮛᮜᮝᮞᮟᮠᮡᮢᮣᮤᮥᮦᮧᮨᮩ᮪᮫ᮬᮭᮮᮯ᮰᮱᮲᮳᮴᮵᮶᮷᮸᮹ᮺᮻᮼᮽᮾᮿᯀᯁᯂᯃᯄᯅᯆᯇᯈᯉᯊᯋᯌᯍᯎᯏᯐᯑᯒᯓᯔᯕᯖᯗᯘᯙᯚᯛᯜᯝᯞᯟᯠᯡᯢᯣᯤᯥ᯦ᯧᯨᯩᯪᯫᯬᯭᯮᯯᯰᯱ᯲᯳᯴᯵᯶᯷᯸᯹᯺᯻᯼᯽᯾᯿",
      "ᲀᲁᲂᲃᲄᲅᲆᲇᲈᲉᲊ᲋᲌᲍᲎᲏ᲐᲑᲒᲓᲔᲕᲖᲗᲘᲙᲚᲛᲜᲝᲞᲟᲠᲡᲢᲣᲤᲥᲦᲧᲨᲩᲪᲫᲬᲭᲮᲯᲰᲱᲲᲳᲴᲵᲶᲷᲸᲹᲺ᲻᲼ᲽᲾᲿ᳀᳁᳂᳃᳄᳅᳆᳇᳈᳉᳊᳋᳌᳍᳎᳏᳐᳑᳒᳓᳔᳕᳖᳗᳘᳙᳜᳝᳞᳟᳚᳛᳠᳡᳢᳣᳤᳥᳦᳧᳨ᳩᳪᳫᳬ᳭ᳮᳯᳰᳱᳲᳳ᳴ᳵᳶ᳷᳸᳹ᳺ᳻᳼᳽᳾᳿",
      "ᶀᶁᶂᶃᶄᶅᶆᶇᶈᶉᶊᶋᶌᶍᶎᶏᶐᶑᶒᶓᶔᶕᶖᶗᶘᶙᶚᶛᶜᶝᶞᶟᶠᶡᶢᶣᶤᶥᶦᶧᶨᶩᶪᶫᶬᶭᶮᶯᶰᶱᶲᶳᶴᶵᶶᶷᶸᶹᶺᶻᶼᶽᶾᶿ᷐᷎᷺᷂᷊᷏᷹᷽᷿᷷᷸᷀᷁᷃᷄᷅᷆᷇᷈᷉᷋᷌᷑᷒ᷓᷔᷕᷖᷗᷘᷙᷚᷛᷜᷝᷞᷟᷠᷡᷢᷣᷤᷥᷦᷧᷨᷩᷪᷫᷬᷭᷮᷯᷰᷱᷲᷳᷴ᷵᷻᷾᷶᷼᷍",
      "ẀẁẂẃẄẅẆẇẈẉẊẋẌẍẎẏẐẑẒẓẔẕẖẗẘẙẚẛẜẝẞẟẠạẢảẤấẦầẨẩẪẫẬậẮắẰằẲẳẴẵẶặẸẹẺẻẼẽẾếỀềỂểỄễỆệỈỉỊịỌọỎỏỐốỒồỔổỖỗỘộỚớỜờỞởỠỡỢợỤụỦủỨứỪừỬửỮữỰựỲỳỴỵỶỷỸỹỺỻỼỽỾỿ",
      "ᾀᾁᾂᾃᾄᾅᾆᾇᾈᾉᾊᾋᾌᾍᾎᾏᾐᾑᾒᾓᾔᾕᾖᾗᾘᾙᾚᾛᾜᾝᾞᾟᾠᾡᾢᾣᾤᾥᾦᾧᾨᾩᾪᾫᾬᾭᾮᾯᾰᾱᾲᾳᾴ᾵ᾶᾷᾸᾹᾺΆᾼ᾽ι᾿῀῁ῂῃῄ῅ῆῇῈΈῊΉῌ῍῎῏ῐῑῒΐ῔῕ῖῗῘῙῚΊ῜῝῞῟ῠῡῢΰῤῥῦῧῨῩῪΎῬ῭΅`῰῱ῲῳῴ῵ῶῷῸΌῺΏῼ´῾῿",
      "₀₁₂₃₄₅₆₇₈₉₊₋₌₍₎₏ₐₑₒₓₔₕₖₗₘₙₚₛₜ₝₞₟₠₡₢₣₤₥₦₧₨₩₪₫€₭₮₯₰₱₲₳₴₵₶₷₸₹₺₻₼₽₾₿⃀⃁⃂⃃⃄⃅⃆⃇⃈⃉⃊⃋⃌⃍⃎⃏⃒⃓⃘⃙⃚⃐⃑⃔⃕⃖⃗⃛⃜⃝⃞⃟⃠⃡⃢⃣⃤⃥⃦⃪⃫⃨⃬⃭⃮⃯⃧⃩⃰⃱⃲⃳⃴⃵⃶⃷⃸⃹⃺⃻⃼⃽⃾⃿",
      "ↀↁↂↃↄↅↆↇↈ↉↊↋↌↍↎↏←↑→↓↔↕↖↗↘↙↚↛↜↝↞↟↠↡↢↣↤↥↦↧↨↩↪↫↬↭↮↯↰↱↲↳↴↵↶↷↸↹↺↻↼↽↾↿⇀⇁⇂⇃⇄⇅⇆⇇⇈⇉⇊⇋⇌⇍⇎⇏⇐⇑⇒⇓⇔⇕⇖⇗⇘⇙⇚⇛⇜⇝⇞⇟⇠⇡⇢⇣⇤⇥⇦⇧⇨⇩⇪⇫⇬⇭⇮⇯⇰⇱⇲⇳⇴⇵⇶⇷⇸⇹⇺⇻⇼⇽⇾⇿",
      "⊀⊁⊂⊃⊄⊅⊆⊇⊈⊉⊊⊋⊌⊍⊎⊏⊐⊑⊒⊓⊔⊕⊖⊗⊘⊙⊚⊛⊜⊝⊞⊟⊠⊡⊢⊣⊤⊥⊦⊧⊨⊩⊪⊫⊬⊭⊮⊯⊰⊱⊲⊳⊴⊵⊶⊷⊸⊹⊺⊻⊼⊽⊾⊿⋀⋁⋂⋃⋄⋅⋆⋇⋈⋉⋊⋋⋌⋍⋎⋏⋐⋑⋒⋓⋔⋕⋖⋗⋘⋙⋚⋛⋜⋝⋞⋟⋠⋡⋢⋣⋤⋥⋦⋧⋨⋩⋪⋫⋬⋭⋮⋯⋰⋱⋲⋳⋴⋵⋶⋷⋸⋹⋺⋻⋼⋽⋾⋿",
      "⎀⎁⎂⎃⎄⎅⎆⎇⎈⎉⎊⎋⎌⎍⎎⎏⎐⎑⎒⎓⎔⎕⎖⎗⎘⎙⎚⎛⎜⎝⎞⎟⎠⎡⎢⎣⎤⎥⎦⎧⎨⎩⎪⎫⎬⎭⎮⎯⎰⎱⎲⎳⎴⎵⎶⎷⎸⎹⎺⎻⎼⎽⎾⎿⏀⏁⏂⏃⏄⏅⏆⏇⏈⏉⏊⏋⏌⏍⏎⏏⏐⏑⏒⏓⏔⏕⏖⏗⏘⏙⏚⏛⏜⏝⏞⏟⏠⏡⏢⏣⏤⏥⏦⏧⏨⏩⏪⏫⏬⏭⏮⏯⏰⏱⏲⏳⏴⏵⏶⏷⏸⏹⏺⏻⏼⏽⏾⏿",
      "⒀⒁⒂⒃⒄⒅⒆⒇⒈⒉⒊⒋⒌⒍⒎⒏⒐⒑⒒⒓⒔⒕⒖⒗⒘⒙⒚⒛⒜⒝⒞⒟⒠⒡⒢⒣⒤⒥⒦⒧⒨⒩⒪⒫⒬⒭⒮⒯⒰⒱⒲⒳⒴⒵ⒶⒷⒸⒹⒺⒻⒼⒽⒾⒿⓀⓁⓂⓃⓄⓅⓆⓇⓈⓉⓊⓋⓌⓍⓎⓏⓐⓑⓒⓓⓔⓕⓖⓗⓘⓙⓚⓛⓜⓝⓞⓟⓠⓡⓢⓣⓤⓥⓦⓧⓨⓩ⓪⓫⓬⓭⓮⓯⓰⓱⓲⓳⓴⓵⓶⓷⓸⓹⓺⓻⓼⓽⓾⓿",
      "▀▁▂▃▄▅▆▇█▉▊▋▌▍▎▏▐░▒▓▔▕▖▗▘▙▚▛▜▝▞▟■□▢▣▤▥▦▧▨▩▪▫▬▭▮▯▰▱▲△▴▵▶▷▸▹►▻▼▽▾▿◀◁◂◃◄◅◆◇◈◉◊○◌◍◎●◐◑◒◓◔◕◖◗◘◙◚◛◜◝◞◟◠◡◢◣◤◥◦◧◨◩◪◫◬◭◮◯◰◱◲◳◴◵◶◷◸◹◺◻◼◽◾◿",
      "⚀⚁⚂⚃⚄⚅⚆⚇⚈⚉⚊⚋⚌⚍⚎⚏⚐⚑⚒⚓⚔⚕⚖⚗⚘⚙⚚⚛⚜⚝⚞⚟⚠⚡⚢⚣⚤⚥⚦⚧⚨⚩⚪⚫⚬⚭⚮⚯⚰⚱⚲⚳⚴⚵⚶⚷⚸⚹⚺⚻⚼⚽⚾⚿⛀⛁⛂⛃⛄⛅⛆⛇⛈⛉⛊⛋⛌⛍⛎⛏⛐⛑⛒⛓⛔⛕⛖⛗⛘⛙⛚⛛⛜⛝⛞⛟⛠⛡⛢⛣⛤⛥⛦⛧⛨⛩⛪⛫⛬⛭⛮⛯⛰⛱⛲⛳⛴⛵⛶⛷⛸⛹⛺⛻⛼⛽⛾⛿",
      "➀➁➂➃➄➅➆➇➈➉➊➋➌➍➎➏➐➑➒➓➔➕➖➗➘➙➚➛➜➝➞➟➠➡➢➣➤➥➦➧➨➩➪➫➬➭➮➯➰➱➲➳➴➵➶➷➸➹➺➻➼➽➾➿⟀⟁⟂⟃⟄⟅⟆⟇⟈⟉⟊⟋⟌⟍⟎⟏⟐⟑⟒⟓⟔⟕⟖⟗⟘⟙⟚⟛⟜⟝⟞⟟⟠⟡⟢⟣⟤⟥⟦⟧⟨⟩⟪⟫⟬⟭⟮⟯⟰⟱⟲⟳⟴⟵⟶⟷⟸⟹⟺⟻⟼⟽⟾⟿",
      "⢀⢁⢂⢃⢄⢅⢆⢇⢈⢉⢊⢋⢌⢍⢎⢏⢐⢑⢒⢓⢔⢕⢖⢗⢘⢙⢚⢛⢜⢝⢞⢟⢠⢡⢢⢣⢤⢥⢦⢧⢨⢩⢪⢫⢬⢭⢮⢯⢰⢱⢲⢳⢴⢵⢶⢷⢸⢹⢺⢻⢼⢽⢾⢿⣀⣁⣂⣃⣄⣅⣆⣇⣈⣉⣊⣋⣌⣍⣎⣏⣐⣑⣒⣓⣔⣕⣖⣗⣘⣙⣚⣛⣜⣝⣞⣟⣠⣡⣢⣣⣤⣥⣦⣧⣨⣩⣪⣫⣬⣭⣮⣯⣰⣱⣲⣳⣴⣵⣶⣷⣸⣹⣺⣻⣼⣽⣾⣿",
      "⦀⦁⦂⦃⦄⦅⦆⦇⦈⦉⦊⦋⦌⦍⦎⦏⦐⦑⦒⦓⦔⦕⦖⦗⦘⦙⦚⦛⦜⦝⦞⦟⦠⦡⦢⦣⦤⦥⦦⦧⦨⦩⦪⦫⦬⦭⦮⦯⦰⦱⦲⦳⦴⦵⦶⦷⦸⦹⦺⦻⦼⦽⦾⦿⧀⧁⧂⧃⧄⧅⧆⧇⧈⧉⧊⧋⧌⧍⧎⧏⧐⧑⧒⧓⧔⧕⧖⧗⧘⧙⧚⧛⧜⧝⧞⧟⧠⧡⧢⧣⧤⧥⧦⧧⧨⧩⧪⧫⧬⧭⧮⧯⧰⧱⧲⧳⧴⧵⧶⧷⧸⧹⧺⧻⧼⧽⧾⧿",
      "⪀⪁⪂⪃⪄⪅⪆⪇⪈⪉⪊⪋⪌⪍⪎⪏⪐⪑⪒⪓⪔⪕⪖⪗⪘⪙⪚⪛⪜⪝⪞⪟⪠⪡⪢⪣⪤⪥⪦⪧⪨⪩⪪⪫⪬⪭⪮⪯⪰⪱⪲⪳⪴⪵⪶⪷⪸⪹⪺⪻⪼⪽⪾⪿⫀⫁⫂⫃⫄⫅⫆⫇⫈⫉⫊⫋⫌⫍⫎⫏⫐⫑⫒⫓⫔⫕⫖⫗⫘⫙⫚⫛⫝̸⫝⫞⫟⫠⫡⫢⫣⫤⫥⫦⫧⫨⫩⫪⫫⫬⫭⫮⫯⫰⫱⫲⫳⫴⫵⫶⫷⫸⫹⫺⫻⫼⫽⫾⫿",
      "⮀⮁⮂⮃⮄⮅⮆⮇⮈⮉⮊⮋⮌⮍⮎⮏⮐⮑⮒⮓⮔⮕⮖⮗⮘⮙⮚⮛⮜⮝⮞⮟⮠⮡⮢⮣⮤⮥⮦⮧⮨⮩⮪⮫⮬⮭⮮⮯⮰⮱⮲⮳⮴⮵⮶⮷⮸⮹⮺⮻⮼⮽⮾⮿⯀⯁⯂⯃⯄⯅⯆⯇⯈⯉⯊⯋⯌⯍⯎⯏⯐⯑⯒⯓⯔⯕⯖⯗⯘⯙⯚⯛⯜⯝⯞⯟⯠⯡⯢⯣⯤⯥⯦⯧⯨⯩⯪⯫⯬⯭⯮⯯⯰⯱⯲⯳⯴⯵⯶⯷⯸⯹⯺⯻⯼⯽⯾⯿",
      "ⲀⲁⲂⲃⲄⲅⲆⲇⲈⲉⲊⲋⲌⲍⲎⲏⲐⲑⲒⲓⲔⲕⲖⲗⲘⲙⲚⲛⲜⲝⲞⲟⲠⲡⲢⲣⲤⲥⲦⲧⲨⲩⲪⲫⲬⲭⲮⲯⲰⲱⲲⲳⲴⲵⲶⲷⲸⲹⲺⲻⲼⲽⲾⲿⳀⳁⳂⳃⳄⳅⳆⳇⳈⳉⳊⳋⳌⳍⳎⳏⳐⳑⳒⳓⳔⳕⳖⳗⳘⳙⳚⳛⳜⳝⳞⳟⳠⳡⳢⳣⳤ⳥⳦⳧⳨⳩⳪ⳫⳬⳭⳮ⳯⳰⳱Ⳳⳳ⳴⳵⳶⳷⳸⳹⳺⳻⳼⳽⳾⳿",
      "ⶀⶁⶂⶃⶄⶅⶆⶇⶈⶉⶊⶋⶌⶍⶎⶏⶐⶑⶒⶓⶔⶕⶖ⶗⶘⶙⶚⶛⶜⶝⶞⶟ⶠⶡⶢⶣⶤⶥⶦ⶧ⶨⶩⶪⶫⶬⶭⶮ⶯ⶰⶱⶲⶳⶴⶵⶶ⶷ⶸⶹⶺⶻⶼⶽⶾ⶿ⷀⷁⷂⷃⷄⷅⷆ⷇ⷈⷉⷊⷋⷌⷍⷎ⷏ⷐⷑⷒⷓⷔⷕⷖ⷗ⷘⷙⷚⷛⷜⷝⷞ⷟ⷠⷡⷢⷣⷤⷥⷦⷧⷨⷩⷪⷫⷬⷭⷮⷯⷰⷱⷲⷳⷴⷵⷶⷷⷸⷹⷺⷻⷼⷽⷾⷿ",
      "⺀⺁⺂⺃⺄⺅⺆⺇⺈⺉⺊⺋⺌⺍⺎⺏⺐⺑⺒⺓⺔⺕⺖⺗⺘⺙⺚⺛⺜⺝⺞⺟⺠⺡⺢⺣⺤⺥⺦⺧⺨⺩⺪⺫⺬⺭⺮⺯⺰⺱⺲⺳⺴⺵⺶⺷⺸⺹⺺⺻⺼⺽⺾⺿⻀⻁⻂⻃⻄⻅⻆⻇⻈⻉⻊⻋⻌⻍⻎⻏⻐⻑⻒⻓⻔⻕⻖⻗⻘⻙⻚⻛⻜⻝⻞⻟⻠⻡⻢⻣⻤⻥⻦⻧⻨⻩⻪⻫⻬⻭⻮⻯⻰⻱⻲⻳⻴⻵⻶⻷⻸⻹⻺⻻⻼⻽⻾⻿",
      "⾀⾁⾂⾃⾄⾅⾆⾇⾈⾉⾊⾋⾌⾍⾎⾏⾐⾑⾒⾓⾔⾕⾖⾗⾘⾙⾚⾛⾜⾝⾞⾟⾠⾡⾢⾣⾤⾥⾦⾧⾨⾩⾪⾫⾬⾭⾮⾯⾰⾱⾲⾳⾴⾵⾶⾷⾸⾹⾺⾻⾼⾽⾾⾿⿀⿁⿂⿃⿄⿅⿆⿇⿈⿉⿊⿋⿌⿍⿎⿏⿐⿑⿒⿓⿔⿕⿖⿗⿘⿙⿚⿛⿜⿝⿞⿟⿠⿡⿢⿣⿤⿥⿦⿧⿨⿩⿪⿫⿬⿭⿮⿯⿰⿱⿲⿳⿴⿵⿶⿷⿸⿹⿺⿻⿼⿽⿾⿿",
      "むめもゃやゅゆょよらりるれろゎわゐゑをんゔゕゖ゗゘゙゚゛゜ゝゞゟ゠ァアィイゥウェエォオカガキギクグケゲコゴサザシジスズセゼソゾタダチヂッツヅテデトドナニヌネノハバパヒビピフブプヘベペホボポマミムメモャヤュユョヨラリルレロヮワヰヱヲンヴヵヶヷヸヹヺ・ーヽヾヿ",
      "ㆀㆁㆂㆃㆄㆅㆆㆇㆈㆉㆊㆋㆌㆍㆎ㆏㆐㆑㆒㆓㆔㆕㆖㆗㆘㆙㆚㆛㆜㆝㆞㆟ㆠㆡㆢㆣㆤㆥㆦㆧㆨㆩㆪㆫㆬㆭㆮㆯㆰㆱㆲㆳㆴㆵㆶㆷㆸㆹㆺㆻㆼㆽㆾㆿ㇀㇁㇂㇃㇄㇅㇆㇇㇈㇉㇊㇋㇌㇍㇎㇏㇐㇑㇒㇓㇔㇕㇖㇗㇘㇙㇚㇛㇜㇝㇞㇟㇠㇡㇢㇣㇤㇥㇦㇧㇨㇩㇪㇫㇬㇭㇮㇯ㇰㇱㇲㇳㇴㇵㇶㇷㇸㇹㇺㇻㇼㇽㇾㇿ",
      "㊀㊁㊂㊃㊄㊅㊆㊇㊈㊉㊊㊋㊌㊍㊎㊏㊐㊑㊒㊓㊔㊕㊖㊗㊘㊙㊚㊛㊜㊝㊞㊟㊠㊡㊢㊣㊤㊥㊦㊧㊨㊩㊪㊫㊬㊭㊮㊯㊰㊱㊲㊳㊴㊵㊶㊷㊸㊹㊺㊻㊼㊽㊾㊿㋀㋁㋂㋃㋄㋅㋆㋇㋈㋉㋊㋋㋌㋍㋎㋏㋐㋑㋒㋓㋔㋕㋖㋗㋘㋙㋚㋛㋜㋝㋞㋟㋠㋡㋢㋣㋤㋥㋦㋧㋨㋩㋪㋫㋬㋭㋮㋯㋰㋱㋲㋳㋴㋵㋶㋷㋸㋹㋺㋻㋼㋽㋾㋿",
      "㎀㎁㎂㎃㎄㎅㎆㎇㎈㎉㎊㎋㎌㎍㎎㎏㎐㎑㎒㎓㎔㎕㎖㎗㎘㎙㎚㎛㎜㎝㎞㎟㎠㎡㎢㎣㎤㎥㎦㎧㎨㎩㎪㎫㎬㎭㎮㎯㎰㎱㎲㎳㎴㎵㎶㎷㎸㎹㎺㎻㎼㎽㎾㎿㏀㏁㏂㏃㏄㏅㏆㏇㏈㏉㏊㏋㏌㏍㏎㏏㏐㏑㏒㏓㏔㏕㏖㏗㏘㏙㏚㏛㏜㏝㏞㏟㏠㏡㏢㏣㏤㏥㏦㏧㏨㏩㏪㏫㏬㏭㏮㏯㏰㏱㏲㏳㏴㏵㏶㏷㏸㏹㏺㏻㏼㏽㏾㏿",
      "㒀㒁㒂㒃㒄㒅㒆㒇㒈㒉㒊㒋㒌㒍㒎㒏㒐㒑㒒㒓㒔㒕㒖㒗㒘㒙㒚㒛㒜㒝㒞㒟㒠㒡㒢㒣㒤㒥㒦㒧㒨㒩㒪㒫㒬㒭㒮㒯㒰㒱㒲㒳㒴㒵㒶㒷㒸㒹㒺㒻㒼㒽㒾㒿㓀㓁㓂㓃㓄㓅㓆㓇㓈㓉㓊㓋㓌㓍㓎㓏㓐㓑㓒㓓㓔㓕㓖㓗㓘㓙㓚㓛㓜㓝㓞㓟㓠㓡㓢㓣㓤㓥㓦㓧㓨㓩㓪㓫㓬㓭㓮㓯㓰㓱㓲㓳㓴㓵㓶㓷㓸㓹㓺㓻㓼㓽㓾㓿",
      "㖀㖁㖂㖃㖄㖅㖆㖇㖈㖉㖊㖋㖌㖍㖎㖏㖐㖑㖒㖓㖔㖕㖖㖗㖘㖙㖚㖛㖜㖝㖞㖟㖠㖡㖢㖣㖤㖥㖦㖧㖨㖩㖪㖫㖬㖭㖮㖯㖰㖱㖲㖳㖴㖵㖶㖷㖸㖹㖺㖻㖼㖽㖾㖿㗀㗁㗂㗃㗄㗅㗆㗇㗈㗉㗊㗋㗌㗍㗎㗏㗐㗑㗒㗓㗔㗕㗖㗗㗘㗙㗚㗛㗜㗝㗞㗟㗠㗡㗢㗣㗤㗥㗦㗧㗨㗩㗪㗫㗬㗭㗮㗯㗰㗱㗲㗳㗴㗵㗶㗷㗸㗹㗺㗻㗼㗽㗾㗿",
      "㚀㚁㚂㚃㚄㚅㚆㚇㚈㚉㚊㚋㚌㚍㚎㚏㚐㚑㚒㚓㚔㚕㚖㚗㚘㚙㚚㚛㚜㚝㚞㚟㚠㚡㚢㚣㚤㚥㚦㚧㚨㚩㚪㚫㚬㚭㚮㚯㚰㚱㚲㚳㚴㚵㚶㚷㚸㚹㚺㚻㚼㚽㚾㚿㛀㛁㛂㛃㛄㛅㛆㛇㛈㛉㛊㛋㛌㛍㛎㛏㛐㛑㛒㛓㛔㛕㛖㛗㛘㛙㛚㛛㛜㛝㛞㛟㛠㛡㛢㛣㛤㛥㛦㛧㛨㛩㛪㛫㛬㛭㛮㛯㛰㛱㛲㛳㛴㛵㛶㛷㛸㛹㛺㛻㛼㛽㛾㛿",
      "㞀㞁㞂㞃㞄㞅㞆㞇㞈㞉㞊㞋㞌㞍㞎㞏㞐㞑㞒㞓㞔㞕㞖㞗㞘㞙㞚㞛㞜㞝㞞㞟㞠㞡㞢㞣㞤㞥㞦㞧㞨㞩㞪㞫㞬㞭㞮㞯㞰㞱㞲㞳㞴㞵㞶㞷㞸㞹㞺㞻㞼㞽㞾㞿㟀㟁㟂㟃㟄㟅㟆㟇㟈㟉㟊㟋㟌㟍㟎㟏㟐㟑㟒㟓㟔㟕㟖㟗㟘㟙㟚㟛㟜㟝㟞㟟㟠㟡㟢㟣㟤㟥㟦㟧㟨㟩㟪㟫㟬㟭㟮㟯㟰㟱㟲㟳㟴㟵㟶㟷㟸㟹㟺㟻㟼㟽㟾㟿",
      "㢀㢁㢂㢃㢄㢅㢆㢇㢈㢉㢊㢋㢌㢍㢎㢏㢐㢑㢒㢓㢔㢕㢖㢗㢘㢙㢚㢛㢜㢝㢞㢟㢠㢡㢢㢣㢤㢥㢦㢧㢨㢩㢪㢫㢬㢭㢮㢯㢰㢱㢲㢳㢴㢵㢶㢷㢸㢹㢺㢻㢼㢽㢾㢿㣀㣁㣂㣃㣄㣅㣆㣇㣈㣉㣊㣋㣌㣍㣎㣏㣐㣑㣒㣓㣔㣕㣖㣗㣘㣙㣚㣛㣜㣝㣞㣟㣠㣡㣢㣣㣤㣥㣦㣧㣨㣩㣪㣫㣬㣭㣮㣯㣰㣱㣲㣳㣴㣵㣶㣷㣸㣹㣺㣻㣼㣽㣾㣿",
      "㦀㦁㦂㦃㦄㦅㦆㦇㦈㦉㦊㦋㦌㦍㦎㦏㦐㦑㦒㦓㦔㦕㦖㦗㦘㦙㦚㦛㦜㦝㦞㦟㦠㦡㦢㦣㦤㦥㦦㦧㦨㦩㦪㦫㦬㦭㦮㦯㦰㦱㦲㦳㦴㦵㦶㦷㦸㦹㦺㦻㦼㦽㦾㦿㧀㧁㧂㧃㧄㧅㧆㧇㧈㧉㧊㧋㧌㧍㧎㧏㧐㧑㧒㧓㧔㧕㧖㧗㧘㧙㧚㧛㧜㧝㧞㧟㧠㧡㧢㧣㧤㧥㧦㧧㧨㧩㧪㧫㧬㧭㧮㧯㧰㧱㧲㧳㧴㧵㧶㧷㧸㧹㧺㧻㧼㧽㧾㧿",
      "㪀㪁㪂㪃㪄㪅㪆㪇㪈㪉㪊㪋㪌㪍㪎㪏㪐㪑㪒㪓㪔㪕㪖㪗㪘㪙㪚㪛㪜㪝㪞㪟㪠㪡㪢㪣㪤㪥㪦㪧㪨㪩㪪㪫㪬㪭㪮㪯㪰㪱㪲㪳㪴㪵㪶㪷㪸㪹㪺㪻㪼㪽㪾㪿㫀㫁㫂㫃㫄㫅㫆㫇㫈㫉㫊㫋㫌㫍㫎㫏㫐㫑㫒㫓㫔㫕㫖㫗㫘㫙㫚㫛㫜㫝㫞㫟㫠㫡㫢㫣㫤㫥㫦㫧㫨㫩㫪㫫㫬㫭㫮㫯㫰㫱㫲㫳㫴㫵㫶㫷㫸㫹㫺㫻㫼㫽㫾㫿",
      "㮀㮁㮂㮃㮄㮅㮆㮇㮈㮉㮊㮋㮌㮍㮎㮏㮐㮑㮒㮓㮔㮕㮖㮗㮘㮙㮚㮛㮜㮝㮞㮟㮠㮡㮢㮣㮤㮥㮦㮧㮨㮩㮪㮫㮬㮭㮮㮯㮰㮱㮲㮳㮴㮵㮶㮷㮸㮹㮺㮻㮼㮽㮾㮿㯀㯁㯂㯃㯄㯅㯆㯇㯈㯉㯊㯋㯌㯍㯎㯏㯐㯑㯒㯓㯔㯕㯖㯗㯘㯙㯚㯛㯜㯝㯞㯟㯠㯡㯢㯣㯤㯥㯦㯧㯨㯩㯪㯫㯬㯭㯮㯯㯰㯱㯲㯳㯴㯵㯶㯷㯸㯹㯺㯻㯼㯽㯾㯿",
      "㲀㲁㲂㲃㲄㲅㲆㲇㲈㲉㲊㲋㲌㲍㲎㲏㲐㲑㲒㲓㲔㲕㲖㲗㲘㲙㲚㲛㲜㲝㲞㲟㲠㲡㲢㲣㲤㲥㲦㲧㲨㲩㲪㲫㲬㲭㲮㲯㲰㲱㲲㲳㲴㲵㲶㲷㲸㲹㲺㲻㲼㲽㲾㲿㳀㳁㳂㳃㳄㳅㳆㳇㳈㳉㳊㳋㳌㳍㳎㳏㳐㳑㳒㳓㳔㳕㳖㳗㳘㳙㳚㳛㳜㳝㳞㳟㳠㳡㳢㳣㳤㳥㳦㳧㳨㳩㳪㳫㳬㳭㳮㳯㳰㳱㳲㳳㳴㳵㳶㳷㳸㳹㳺㳻㳼㳽㳾㳿",
      "㶀㶁㶂㶃㶄㶅㶆㶇㶈㶉㶊㶋㶌㶍㶎㶏㶐㶑㶒㶓㶔㶕㶖㶗㶘㶙㶚㶛㶜㶝㶞㶟㶠㶡㶢㶣㶤㶥㶦㶧㶨㶩㶪㶫㶬㶭㶮㶯㶰㶱㶲㶳㶴㶵㶶㶷㶸㶹㶺㶻㶼㶽㶾㶿㷀㷁㷂㷃㷄㷅㷆㷇㷈㷉㷊㷋㷌㷍㷎㷏㷐㷑㷒㷓㷔㷕㷖㷗㷘㷙㷚㷛㷜㷝㷞㷟㷠㷡㷢㷣㷤㷥㷦㷧㷨㷩㷪㷫㷬㷭㷮㷯㷰㷱㷲㷳㷴㷵㷶㷷㷸㷹㷺㷻㷼㷽㷾㷿",
      "㺀㺁㺂㺃㺄㺅㺆㺇㺈㺉㺊㺋㺌㺍㺎㺏㺐㺑㺒㺓㺔㺕㺖㺗㺘㺙㺚㺛㺜㺝㺞㺟㺠㺡㺢㺣㺤㺥㺦㺧㺨㺩㺪㺫㺬㺭㺮㺯㺰㺱㺲㺳㺴㺵㺶㺷㺸㺹㺺㺻㺼㺽㺾㺿㻀㻁㻂㻃㻄㻅㻆㻇㻈㻉㻊㻋㻌㻍㻎㻏㻐㻑㻒㻓㻔㻕㻖㻗㻘㻙㻚㻛㻜㻝㻞㻟㻠㻡㻢㻣㻤㻥㻦㻧㻨㻩㻪㻫㻬㻭㻮㻯㻰㻱㻲㻳㻴㻵㻶㻷㻸㻹㻺㻻㻼㻽㻾㻿",
      "㾀㾁㾂㾃㾄㾅㾆㾇㾈㾉㾊㾋㾌㾍㾎㾏㾐㾑㾒㾓㾔㾕㾖㾗㾘㾙㾚㾛㾜㾝㾞㾟㾠㾡㾢㾣㾤㾥㾦㾧㾨㾩㾪㾫㾬㾭㾮㾯㾰㾱㾲㾳㾴㾵㾶㾷㾸㾹㾺㾻㾼㾽㾾㾿㿀㿁㿂㿃㿄㿅㿆㿇㿈㿉㿊㿋㿌㿍㿎㿏㿐㿑㿒㿓㿔㿕㿖㿗㿘㿙㿚㿛㿜㿝㿞㿟㿠㿡㿢㿣㿤㿥㿦㿧㿨㿩㿪㿫㿬㿭㿮㿯㿰㿱㿲㿳㿴㿵㿶㿷㿸㿹㿺㿻㿼㿽㿾㿿",
      "䂀䂁䂂䂃䂄䂅䂆䂇䂈䂉䂊䂋䂌䂍䂎䂏䂐䂑䂒䂓䂔䂕䂖䂗䂘䂙䂚䂛䂜䂝䂞䂟䂠䂡䂢䂣䂤䂥䂦䂧䂨䂩䂪䂫䂬䂭䂮䂯䂰䂱䂲䂳䂴䂵䂶䂷䂸䂹䂺䂻䂼䂽䂾䂿䃀䃁䃂䃃䃄䃅䃆䃇䃈䃉䃊䃋䃌䃍䃎䃏䃐䃑䃒䃓䃔䃕䃖䃗䃘䃙䃚䃛䃜䃝䃞䃟䃠䃡䃢䃣䃤䃥䃦䃧䃨䃩䃪䃫䃬䃭䃮䃯䃰䃱䃲䃳䃴䃵䃶䃷䃸䃹䃺䃻䃼䃽䃾䃿",
      "䆀䆁䆂䆃䆄䆅䆆䆇䆈䆉䆊䆋䆌䆍䆎䆏䆐䆑䆒䆓䆔䆕䆖䆗䆘䆙䆚䆛䆜䆝䆞䆟䆠䆡䆢䆣䆤䆥䆦䆧䆨䆩䆪䆫䆬䆭䆮䆯䆰䆱䆲䆳䆴䆵䆶䆷䆸䆹䆺䆻䆼䆽䆾䆿䇀䇁䇂䇃䇄䇅䇆䇇䇈䇉䇊䇋䇌䇍䇎䇏䇐䇑䇒䇓䇔䇕䇖䇗䇘䇙䇚䇛䇜䇝䇞䇟䇠䇡䇢䇣䇤䇥䇦䇧䇨䇩䇪䇫䇬䇭䇮䇯䇰䇱䇲䇳䇴䇵䇶䇷䇸䇹䇺䇻䇼䇽䇾䇿",
      "䊀䊁䊂䊃䊄䊅䊆䊇䊈䊉䊊䊋䊌䊍䊎䊏䊐䊑䊒䊓䊔䊕䊖䊗䊘䊙䊚䊛䊜䊝䊞䊟䊠䊡䊢䊣䊤䊥䊦䊧䊨䊩䊪䊫䊬䊭䊮䊯䊰䊱䊲䊳䊴䊵䊶䊷䊸䊹䊺䊻䊼䊽䊾䊿䋀䋁䋂䋃䋄䋅䋆䋇䋈䋉䋊䋋䋌䋍䋎䋏䋐䋑䋒䋓䋔䋕䋖䋗䋘䋙䋚䋛䋜䋝䋞䋟䋠䋡䋢䋣䋤䋥䋦䋧䋨䋩䋪䋫䋬䋭䋮䋯䋰䋱䋲䋳䋴䋵䋶䋷䋸䋹䋺䋻䋼䋽䋾䋿",
      "䎀䎁䎂䎃䎄䎅䎆䎇䎈䎉䎊䎋䎌䎍䎎䎏䎐䎑䎒䎓䎔䎕䎖䎗䎘䎙䎚䎛䎜䎝䎞䎟䎠䎡䎢䎣䎤䎥䎦䎧䎨䎩䎪䎫䎬䎭䎮䎯䎰䎱䎲䎳䎴䎵䎶䎷䎸䎹䎺䎻䎼䎽䎾䎿䏀䏁䏂䏃䏄䏅䏆䏇䏈䏉䏊䏋䏌䏍䏎䏏䏐䏑䏒䏓䏔䏕䏖䏗䏘䏙䏚䏛䏜䏝䏞䏟䏠䏡䏢䏣䏤䏥䏦䏧䏨䏩䏪䏫䏬䏭䏮䏯䏰䏱䏲䏳䏴䏵䏶䏷䏸䏹䏺䏻䏼䏽䏾䏿",
      "䒀䒁䒂䒃䒄䒅䒆䒇䒈䒉䒊䒋䒌䒍䒎䒏䒐䒑䒒䒓䒔䒕䒖䒗䒘䒙䒚䒛䒜䒝䒞䒟䒠䒡䒢䒣䒤䒥䒦䒧䒨䒩䒪䒫䒬䒭䒮䒯䒰䒱䒲䒳䒴䒵䒶䒷䒸䒹䒺䒻䒼䒽䒾䒿䓀䓁䓂䓃䓄䓅䓆䓇䓈䓉䓊䓋䓌䓍䓎䓏䓐䓑䓒䓓䓔䓕䓖䓗䓘䓙䓚䓛䓜䓝䓞䓟䓠䓡䓢䓣䓤䓥䓦䓧䓨䓩䓪䓫䓬䓭䓮䓯䓰䓱䓲䓳䓴䓵䓶䓷䓸䓹䓺䓻䓼䓽䓾䓿",
      "䖀䖁䖂䖃䖄䖅䖆䖇䖈䖉䖊䖋䖌䖍䖎䖏䖐䖑䖒䖓䖔䖕䖖䖗䖘䖙䖚䖛䖜䖝䖞䖟䖠䖡䖢䖣䖤䖥䖦䖧䖨䖩䖪䖫䖬䖭䖮䖯䖰䖱䖲䖳䖴䖵䖶䖷䖸䖹䖺䖻䖼䖽䖾䖿䗀䗁䗂䗃䗄䗅䗆䗇䗈䗉䗊䗋䗌䗍䗎䗏䗐䗑䗒䗓䗔䗕䗖䗗䗘䗙䗚䗛䗜䗝䗞䗟䗠䗡䗢䗣䗤䗥䗦䗧䗨䗩䗪䗫䗬䗭䗮䗯䗰䗱䗲䗳䗴䗵䗶䗷䗸䗹䗺䗻䗼䗽䗾䗿",
      "䚀䚁䚂䚃䚄䚅䚆䚇䚈䚉䚊䚋䚌䚍䚎䚏䚐䚑䚒䚓䚔䚕䚖䚗䚘䚙䚚䚛䚜䚝䚞䚟䚠䚡䚢䚣䚤䚥䚦䚧䚨䚩䚪䚫䚬䚭䚮䚯䚰䚱䚲䚳䚴䚵䚶䚷䚸䚹䚺䚻䚼䚽䚾䚿䛀䛁䛂䛃䛄䛅䛆䛇䛈䛉䛊䛋䛌䛍䛎䛏䛐䛑䛒䛓䛔䛕䛖䛗䛘䛙䛚䛛䛜䛝䛞䛟䛠䛡䛢䛣䛤䛥䛦䛧䛨䛩䛪䛫䛬䛭䛮䛯䛰䛱䛲䛳䛴䛵䛶䛷䛸䛹䛺䛻䛼䛽䛾䛿",
      "䞀䞁䞂䞃䞄䞅䞆䞇䞈䞉䞊䞋䞌䞍䞎䞏䞐䞑䞒䞓䞔䞕䞖䞗䞘䞙䞚䞛䞜䞝䞞䞟䞠䞡䞢䞣䞤䞥䞦䞧䞨䞩䞪䞫䞬䞭䞮䞯䞰䞱䞲䞳䞴䞵䞶䞷䞸䞹䞺䞻䞼䞽䞾䞿䟀䟁䟂䟃䟄䟅䟆䟇䟈䟉䟊䟋䟌䟍䟎䟏䟐䟑䟒䟓䟔䟕䟖䟗䟘䟙䟚䟛䟜䟝䟞䟟䟠䟡䟢䟣䟤䟥䟦䟧䟨䟩䟪䟫䟬䟭䟮䟯䟰䟱䟲䟳䟴䟵䟶䟷䟸䟹䟺䟻䟼䟽䟾䟿",
      "䢀䢁䢂䢃䢄䢅䢆䢇䢈䢉䢊䢋䢌䢍䢎䢏䢐䢑䢒䢓䢔䢕䢖䢗䢘䢙䢚䢛䢜䢝䢞䢟䢠䢡䢢䢣䢤䢥䢦䢧䢨䢩䢪䢫䢬䢭䢮䢯䢰䢱䢲䢳䢴䢵䢶䢷䢸䢹䢺䢻䢼䢽䢾䢿䣀䣁䣂䣃䣄䣅䣆䣇䣈䣉䣊䣋䣌䣍䣎䣏䣐䣑䣒䣓䣔䣕䣖䣗䣘䣙䣚䣛䣜䣝䣞䣟䣠䣡䣢䣣䣤䣥䣦䣧䣨䣩䣪䣫䣬䣭䣮䣯䣰䣱䣲䣳䣴䣵䣶䣷䣸䣹䣺䣻䣼䣽䣾䣿",
      "䦀䦁䦂䦃䦄䦅䦆䦇䦈䦉䦊䦋䦌䦍䦎䦏䦐䦑䦒䦓䦔䦕䦖䦗䦘䦙䦚䦛䦜䦝䦞䦟䦠䦡䦢䦣䦤䦥䦦䦧䦨䦩䦪䦫䦬䦭䦮䦯䦰䦱䦲䦳䦴䦵䦶䦷䦸䦹䦺䦻䦼䦽䦾䦿䧀䧁䧂䧃䧄䧅䧆䧇䧈䧉䧊䧋䧌䧍䧎䧏䧐䧑䧒䧓䧔䧕䧖䧗䧘䧙䧚䧛䧜䧝䧞䧟䧠䧡䧢䧣䧤䧥䧦䧧䧨䧩䧪䧫䧬䧭䧮䧯䧰䧱䧲䧳䧴䧵䧶䧷䧸䧹䧺䧻䧼䧽䧾䧿",
      "䪀䪁䪂䪃䪄䪅䪆䪇䪈䪉䪊䪋䪌䪍䪎䪏䪐䪑䪒䪓䪔䪕䪖䪗䪘䪙䪚䪛䪜䪝䪞䪟䪠䪡䪢䪣䪤䪥䪦䪧䪨䪩䪪䪫䪬䪭䪮䪯䪰䪱䪲䪳䪴䪵䪶䪷䪸䪹䪺䪻䪼䪽䪾䪿䫀䫁䫂䫃䫄䫅䫆䫇䫈䫉䫊䫋䫌䫍䫎䫏䫐䫑䫒䫓䫔䫕䫖䫗䫘䫙䫚䫛䫜䫝䫞䫟䫠䫡䫢䫣䫤䫥䫦䫧䫨䫩䫪䫫䫬䫭䫮䫯䫰䫱䫲䫳䫴䫵䫶䫷䫸䫹䫺䫻䫼䫽䫾䫿",
      "䮀䮁䮂䮃䮄䮅䮆䮇䮈䮉䮊䮋䮌䮍䮎䮏䮐䮑䮒䮓䮔䮕䮖䮗䮘䮙䮚䮛䮜䮝䮞䮟䮠䮡䮢䮣䮤䮥䮦䮧䮨䮩䮪䮫䮬䮭䮮䮯䮰䮱䮲䮳䮴䮵䮶䮷䮸䮹䮺䮻䮼䮽䮾䮿䯀䯁䯂䯃䯄䯅䯆䯇䯈䯉䯊䯋䯌䯍䯎䯏䯐䯑䯒䯓䯔䯕䯖䯗䯘䯙䯚䯛䯜䯝䯞䯟䯠䯡䯢䯣䯤䯥䯦䯧䯨䯩䯪䯫䯬䯭䯮䯯䯰䯱䯲䯳䯴䯵䯶䯷䯸䯹䯺䯻䯼䯽䯾䯿",
      "䲀䲁䲂䲃䲄䲅䲆䲇䲈䲉䲊䲋䲌䲍䲎䲏䲐䲑䲒䲓䲔䲕䲖䲗䲘䲙䲚䲛䲜䲝䲞䲟䲠䲡䲢䲣䲤䲥䲦䲧䲨䲩䲪䲫䲬䲭䲮䲯䲰䲱䲲䲳䲴䲵䲶䲷䲸䲹䲺䲻䲼䲽䲾䲿䳀䳁䳂䳃䳄䳅䳆䳇䳈䳉䳊䳋䳌䳍䳎䳏䳐䳑䳒䳓䳔䳕䳖䳗䳘䳙䳚䳛䳜䳝䳞䳟䳠䳡䳢䳣䳤䳥䳦䳧䳨䳩䳪䳫䳬䳭䳮䳯䳰䳱䳲䳳䳴䳵䳶䳷䳸䳹䳺䳻䳼䳽䳾䳿",
      "䶀䶁䶂䶃䶄䶅䶆䶇䶈䶉䶊䶋䶌䶍䶎䶏䶐䶑䶒䶓䶔䶕䶖䶗䶘䶙䶚䶛䶜䶝䶞䶟䶠䶡䶢䶣䶤䶥䶦䶧䶨䶩䶪䶫䶬䶭䶮䶯䶰䶱䶲䶳䶴䶵䶶䶷䶸䶹䶺䶻䶼䶽䶾䶿䷀䷁䷂䷃䷄䷅䷆䷇䷈䷉䷊䷋䷌䷍䷎䷏䷐䷑䷒䷓䷔䷕䷖䷗䷘䷙䷚䷛䷜䷝䷞䷟䷠䷡䷢䷣䷤䷥䷦䷧䷨䷩䷪䷫䷬䷭䷮䷯䷰䷱䷲䷳䷴䷵䷶䷷䷸䷹䷺䷻䷼䷽䷾䷿",
      "亀亁亂亃亄亅了亇予争亊事二亍于亏亐云互亓五井亖亗亘亙亚些亜亝亞亟亠亡亢亣交亥亦产亨亩亪享京亭亮亯亰亱亲亳亴亵亶亷亸亹人亻亼亽亾亿什仁仂仃仄仅仆仇仈仉今介仌仍从仏仐仑仒仓仔仕他仗付仙仚仛仜仝仞仟仠仡仢代令以仦仧仨仩仪仫们仭仮仯仰仱仲仳仴仵件价仸仹仺任仼份仾仿",
      "侀侁侂侃侄侅來侇侈侉侊例侌侍侎侏侐侑侒侓侔侕侖侗侘侙侚供侜依侞侟侠価侢侣侤侥侦侧侨侩侪侫侬侭侮侯侰侱侲侳侴侵侶侷侸侹侺侻侼侽侾便俀俁係促俄俅俆俇俈俉俊俋俌俍俎俏俐俑俒俓俔俕俖俗俘俙俚俛俜保俞俟俠信俢俣俤俥俦俧俨俩俪俫俬俭修俯俰俱俲俳俴俵俶俷俸俹俺俻俼俽俾俿",
      "傀傁傂傃傄傅傆傇傈傉傊傋傌傍傎傏傐傑傒傓傔傕傖傗傘備傚傛傜傝傞傟傠傡傢傣傤傥傦傧储傩傪傫催傭傮傯傰傱傲傳傴債傶傷傸傹傺傻傼傽傾傿僀僁僂僃僄僅僆僇僈僉僊僋僌働僎像僐僑僒僓僔僕僖僗僘僙僚僛僜僝僞僟僠僡僢僣僤僥僦僧僨僩僪僫僬僭僮僯僰僱僲僳僴僵僶僷僸價僺僻僼僽僾僿",
      "冀冁冂冃冄内円冇冈冉冊冋册再冎冏冐冑冒冓冔冕冖冗冘写冚军农冝冞冟冠冡冢冣冤冥冦冧冨冩冪冫冬冭冮冯冰冱冲决冴况冶冷冸冹冺冻冼冽冾冿净凁凂凃凄凅准凇凈凉凊凋凌凍凎减凐凑凒凓凔凕凖凗凘凙凚凛凜凝凞凟几凡凢凣凤凥処凧凨凩凪凫凬凭凮凯凰凱凲凳凴凵凶凷凸凹出击凼函凾凿",
      "劀劁劂劃劄劅劆劇劈劉劊劋劌劍劎劏劐劑劒劓劔劕劖劗劘劙劚力劜劝办功加务劢劣劤劥劦劧动助努劫劬劭劮劯劰励劲劳労劵劶劷劸効劺劻劼劽劾势勀勁勂勃勄勅勆勇勈勉勊勋勌勍勎勏勐勑勒勓勔動勖勗勘務勚勛勜勝勞募勠勡勢勣勤勥勦勧勨勩勪勫勬勭勮勯勰勱勲勳勴勵勶勷勸勹勺勻勼勽勾勿",
      "厀厁厂厃厄厅历厇厈厉厊压厌厍厎厏厐厑厒厓厔厕厖厗厘厙厚厛厜厝厞原厠厡厢厣厤厥厦厧厨厩厪厫厬厭厮厯厰厱厲厳厴厵厶厷厸厹厺去厼厽厾县叀叁参參叄叅叆叇又叉及友双反収叏叐发叒叓叔叕取受变叙叚叛叜叝叞叟叠叡叢口古句另叧叨叩只叫召叭叮可台叱史右叴叵叶号司叹叺叻叼叽叾叿",
      "咀咁咂咃咄咅咆咇咈咉咊咋和咍咎咏咐咑咒咓咔咕咖咗咘咙咚咛咜咝咞咟咠咡咢咣咤咥咦咧咨咩咪咫咬咭咮咯咰咱咲咳咴咵咶咷咸咹咺咻咼咽咾咿哀品哂哃哄哅哆哇哈哉哊哋哌响哎哏哐哑哒哓哔哕哖哗哘哙哚哛哜哝哞哟哠員哢哣哤哥哦哧哨哩哪哫哬哭哮哯哰哱哲哳哴哵哶哷哸哹哺哻哼哽哾哿",
      "喀喁喂喃善喅喆喇喈喉喊喋喌喍喎喏喐喑喒喓喔喕喖喗喘喙喚喛喜喝喞喟喠喡喢喣喤喥喦喧喨喩喪喫喬喭單喯喰喱喲喳喴喵営喷喸喹喺喻喼喽喾喿嗀嗁嗂嗃嗄嗅嗆嗇嗈嗉嗊嗋嗌嗍嗎嗏嗐嗑嗒嗓嗔嗕嗖嗗嗘嗙嗚嗛嗜嗝嗞嗟嗠嗡嗢嗣嗤嗥嗦嗧嗨嗩嗪嗫嗬嗭嗮嗯嗰嗱嗲嗳嗴嗵嗶嗷嗸嗹嗺嗻嗼嗽嗾嗿",
      "嚀嚁嚂嚃嚄嚅嚆嚇嚈嚉嚊嚋嚌嚍嚎嚏嚐嚑嚒嚓嚔嚕嚖嚗嚘嚙嚚嚛嚜嚝嚞嚟嚠嚡嚢嚣嚤嚥嚦嚧嚨嚩嚪嚫嚬嚭嚮嚯嚰嚱嚲嚳嚴嚵嚶嚷嚸嚹嚺嚻嚼嚽嚾嚿囀囁囂囃囄囅囆囇囈囉囊囋囌囍囎囏囐囑囒囓囔囕囖囗囘囙囚四囜囝回囟因囡团団囤囥囦囧囨囩囪囫囬园囮囯困囱囲図围囵囶囷囸囹固囻囼国图囿",
      "垀垁垂垃垄垅垆垇垈垉垊型垌垍垎垏垐垑垒垓垔垕垖垗垘垙垚垛垜垝垞垟垠垡垢垣垤垥垦垧垨垩垪垫垬垭垮垯垰垱垲垳垴垵垶垷垸垹垺垻垼垽垾垿埀埁埂埃埄埅埆埇埈埉埊埋埌埍城埏埐埑埒埓埔埕埖埗埘埙埚埛埜埝埞域埠埡埢埣埤埥埦埧埨埩埪埫埬埭埮埯埰埱埲埳埴埵埶執埸培基埻埼埽埾埿",
      "墀墁墂境墄墅墆墇墈墉墊墋墌墍墎墏墐墑墒墓墔墕墖増墘墙墚墛墜墝增墟墠墡墢墣墤墥墦墧墨墩墪墫墬墭墮墯墰墱墲墳墴墵墶墷墸墹墺墻墼墽墾墿壀壁壂壃壄壅壆壇壈壉壊壋壌壍壎壏壐壑壒壓壔壕壖壗壘壙壚壛壜壝壞壟壠壡壢壣壤壥壦壧壨壩壪士壬壭壮壯声壱売壳壴壵壶壷壸壹壺壻壼壽壾壿",
      "妀妁如妃妄妅妆妇妈妉妊妋妌妍妎妏妐妑妒妓妔妕妖妗妘妙妚妛妜妝妞妟妠妡妢妣妤妥妦妧妨妩妪妫妬妭妮妯妰妱妲妳妴妵妶妷妸妹妺妻妼妽妾妿姀姁姂姃姄姅姆姇姈姉姊始姌姍姎姏姐姑姒姓委姕姖姗姘姙姚姛姜姝姞姟姠姡姢姣姤姥姦姧姨姩姪姫姬姭姮姯姰姱姲姳姴姵姶姷姸姹姺姻姼姽姾姿",
      "媀媁媂媃媄媅媆媇媈媉媊媋媌媍媎媏媐媑媒媓媔媕媖媗媘媙媚媛媜媝媞媟媠媡媢媣媤媥媦媧媨媩媪媫媬媭媮媯媰媱媲媳媴媵媶媷媸媹媺媻媼媽媾媿嫀嫁嫂嫃嫄嫅嫆嫇嫈嫉嫊嫋嫌嫍嫎嫏嫐嫑嫒嫓嫔嫕嫖嫗嫘嫙嫚嫛嫜嫝嫞嫟嫠嫡嫢嫣嫤嫥嫦嫧嫨嫩嫪嫫嫬嫭嫮嫯嫰嫱嫲嫳嫴嫵嫶嫷嫸嫹嫺嫻嫼嫽嫾嫿",
      "宀宁宂它宄宅宆宇守安宊宋完宍宎宏宐宑宒宓宔宕宖宗官宙定宛宜宝实実宠审客宣室宥宦宧宨宩宪宫宬宭宮宯宰宱宲害宴宵家宷宸容宺宻宼宽宾宿寀寁寂寃寄寅密寇寈寉寊寋富寍寎寏寐寑寒寓寔寕寖寗寘寙寚寛寜寝寞察寠寡寢寣寤寥實寧寨審寪寫寬寭寮寯寰寱寲寳寴寵寶寷寸对寺寻导寽対寿",
      "岀岁岂岃岄岅岆岇岈岉岊岋岌岍岎岏岐岑岒岓岔岕岖岗岘岙岚岛岜岝岞岟岠岡岢岣岤岥岦岧岨岩岪岫岬岭岮岯岰岱岲岳岴岵岶岷岸岹岺岻岼岽岾岿峀峁峂峃峄峅峆峇峈峉峊峋峌峍峎峏峐峑峒峓峔峕峖峗峘峙峚峛峜峝峞峟峠峡峢峣峤峥峦峧峨峩峪峫峬峭峮峯峰峱峲峳峴峵島峷峸峹峺峻峼峽峾峿",
      "嶀嶁嶂嶃嶄嶅嶆嶇嶈嶉嶊嶋嶌嶍嶎嶏嶐嶑嶒嶓嶔嶕嶖嶗嶘嶙嶚嶛嶜嶝嶞嶟嶠嶡嶢嶣嶤嶥嶦嶧嶨嶩嶪嶫嶬嶭嶮嶯嶰嶱嶲嶳嶴嶵嶶嶷嶸嶹嶺嶻嶼嶽嶾嶿巀巁巂巃巄巅巆巇巈巉巊巋巌巍巎巏巐巑巒巓巔巕巖巗巘巙巚巛巜川州巟巠巡巢巣巤工左巧巨巩巪巫巬巭差巯巰己已巳巴巵巶巷巸巹巺巻巼巽巾巿",
      "庀庁庂広庄庅庆庇庈庉床庋庌庍庎序庐庑庒库应底庖店庘庙庚庛府庝庞废庠庡庢庣庤庥度座庨庩庪庫庬庭庮庯庰庱庲庳庴庵庶康庸庹庺庻庼庽庾庿廀廁廂廃廄廅廆廇廈廉廊廋廌廍廎廏廐廑廒廓廔廕廖廗廘廙廚廛廜廝廞廟廠廡廢廣廤廥廦廧廨廩廪廫廬廭廮廯廰廱廲廳廴廵延廷廸廹建廻廼廽廾廿",
      "往征徂徃径待徆徇很徉徊律後徍徎徏徐徑徒従徔徕徖得徘徙徚徛徜徝從徟徠御徢徣徤徥徦徧徨復循徫徬徭微徯徰徱徲徳徴徵徶德徸徹徺徻徼徽徾徿忀忁忂心忄必忆忇忈忉忊忋忌忍忎忏忐忑忒忓忔忕忖志忘忙忚忛応忝忞忟忠忡忢忣忤忥忦忧忨忩忪快忬忭忮忯忰忱忲忳忴念忶忷忸忹忺忻忼忽忾忿",
      "悀悁悂悃悄悅悆悇悈悉悊悋悌悍悎悏悐悑悒悓悔悕悖悗悘悙悚悛悜悝悞悟悠悡悢患悤悥悦悧您悩悪悫悬悭悮悯悰悱悲悳悴悵悶悷悸悹悺悻悼悽悾悿惀惁惂惃惄情惆惇惈惉惊惋惌惍惎惏惐惑惒惓惔惕惖惗惘惙惚惛惜惝惞惟惠惡惢惣惤惥惦惧惨惩惪惫惬惭惮惯惰惱惲想惴惵惶惷惸惹惺惻惼惽惾惿",
      "憀憁憂憃憄憅憆憇憈憉憊憋憌憍憎憏憐憑憒憓憔憕憖憗憘憙憚憛憜憝憞憟憠憡憢憣憤憥憦憧憨憩憪憫憬憭憮憯憰憱憲憳憴憵憶憷憸憹憺憻憼憽憾憿懀懁懂懃懄懅懆懇懈應懊懋懌懍懎懏懐懑懒懓懔懕懖懗懘懙懚懛懜懝懞懟懠懡懢懣懤懥懦懧懨懩懪懫懬懭懮懯懰懱懲懳懴懵懶懷懸懹懺懻懼懽懾懿",
      "技抁抂抃抄抅抆抇抈抉把抋抌抍抎抏抐抑抒抓抔投抖抗折抙抚抛抜抝択抟抠抡抢抣护报抦抧抨抩抪披抬抭抮抯抰抱抲抳抴抵抶抷抸抹抺抻押抽抾抿拀拁拂拃拄担拆拇拈拉拊拋拌拍拎拏拐拑拒拓拔拕拖拗拘拙拚招拜拝拞拟拠拡拢拣拤拥拦拧拨择拪拫括拭拮拯拰拱拲拳拴拵拶拷拸拹拺拻拼拽拾拿",
      "掀掁掂掃掄掅掆掇授掉掊掋掌掍掎掏掐掑排掓掔掕掖掗掘掙掚掛掜掝掞掟掠採探掣掤接掦控推掩措掫掬掭掮掯掰掱掲掳掴掵掶掷掸掹掺掻掼掽掾掿揀揁揂揃揄揅揆揇揈揉揊揋揌揍揎描提揑插揓揔揕揖揗揘揙揚換揜揝揞揟揠握揢揣揤揥揦揧揨揩揪揫揬揭揮揯揰揱揲揳援揵揶揷揸揹揺揻揼揽揾揿",
      "撀撁撂撃撄撅撆撇撈撉撊撋撌撍撎撏撐撑撒撓撔撕撖撗撘撙撚撛撜撝撞撟撠撡撢撣撤撥撦撧撨撩撪撫撬播撮撯撰撱撲撳撴撵撶撷撸撹撺撻撼撽撾撿擀擁擂擃擄擅擆擇擈擉擊擋擌操擎擏擐擑擒擓擔擕擖擗擘擙據擛擜擝擞擟擠擡擢擣擤擥擦擧擨擩擪擫擬擭擮擯擰擱擲擳擴擵擶擷擸擹擺擻擼擽擾擿",
      "斀斁斂斃斄斅斆文斈斉斊斋斌斍斎斏斐斑斒斓斔斕斖斗斘料斚斛斜斝斞斟斠斡斢斣斤斥斦斧斨斩斪斫斬断斮斯新斱斲斳斴斵斶斷斸方斺斻於施斾斿旀旁旂旃旄旅旆旇旈旉旊旋旌旍旎族旐旑旒旓旔旕旖旗旘旙旚旛旜旝旞旟无旡既旣旤日旦旧旨早旪旫旬旭旮旯旰旱旲旳旴旵时旷旸旹旺旻旼旽旾旿",
      "暀暁暂暃暄暅暆暇暈暉暊暋暌暍暎暏暐暑暒暓暔暕暖暗暘暙暚暛暜暝暞暟暠暡暢暣暤暥暦暧暨暩暪暫暬暭暮暯暰暱暲暳暴暵暶暷暸暹暺暻暼暽暾暿曀曁曂曃曄曅曆曇曈曉曊曋曌曍曎曏曐曑曒曓曔曕曖曗曘曙曚曛曜曝曞曟曠曡曢曣曤曥曦曧曨曩曪曫曬曭曮曯曰曱曲曳更曵曶曷書曹曺曻曼曽曾替",
      "枀极枂枃构枅枆枇枈枉枊枋枌枍枎枏析枑枒枓枔枕枖林枘枙枚枛果枝枞枟枠枡枢枣枤枥枦枧枨枩枪枫枬枭枮枯枰枱枲枳枴枵架枷枸枹枺枻枼枽枾枿柀柁柂柃柄柅柆柇柈柉柊柋柌柍柎柏某柑柒染柔柕柖柗柘柙柚柛柜柝柞柟柠柡柢柣柤查柦柧柨柩柪柫柬柭柮柯柰柱柲柳柴柵柶柷柸柹柺査柼柽柾柿",
      "梀梁梂梃梄梅梆梇梈梉梊梋梌梍梎梏梐梑梒梓梔梕梖梗梘梙梚梛梜條梞梟梠梡梢梣梤梥梦梧梨梩梪梫梬梭梮梯械梱梲梳梴梵梶梷梸梹梺梻梼梽梾梿检棁棂棃棄棅棆棇棈棉棊棋棌棍棎棏棐棑棒棓棔棕棖棗棘棙棚棛棜棝棞棟棠棡棢棣棤棥棦棧棨棩棪棫棬棭森棯棰棱棲棳棴棵棶棷棸棹棺棻棼棽棾棿",
      "榀榁概榃榄榅榆榇榈榉榊榋榌榍榎榏榐榑榒榓榔榕榖榗榘榙榚榛榜榝榞榟榠榡榢榣榤榥榦榧榨榩榪榫榬榭榮榯榰榱榲榳榴榵榶榷榸榹榺榻榼榽榾榿槀槁槂槃槄槅槆槇槈槉槊構槌槍槎槏槐槑槒槓槔槕槖槗様槙槚槛槜槝槞槟槠槡槢槣槤槥槦槧槨槩槪槫槬槭槮槯槰槱槲槳槴槵槶槷槸槹槺槻槼槽槾槿",
      "檀檁檂檃檄檅檆檇檈檉檊檋檌檍檎檏檐檑檒檓檔檕檖檗檘檙檚檛檜檝檞檟檠檡檢檣檤檥檦檧檨檩檪檫檬檭檮檯檰檱檲檳檴檵檶檷檸檹檺檻檼檽檾檿櫀櫁櫂櫃櫄櫅櫆櫇櫈櫉櫊櫋櫌櫍櫎櫏櫐櫑櫒櫓櫔櫕櫖櫗櫘櫙櫚櫛櫜櫝櫞櫟櫠櫡櫢櫣櫤櫥櫦櫧櫨櫩櫪櫫櫬櫭櫮櫯櫰櫱櫲櫳櫴櫵櫶櫷櫸櫹櫺櫻櫼櫽櫾櫿",
      "殀殁殂殃殄殅殆殇殈殉殊残殌殍殎殏殐殑殒殓殔殕殖殗殘殙殚殛殜殝殞殟殠殡殢殣殤殥殦殧殨殩殪殫殬殭殮殯殰殱殲殳殴段殶殷殸殹殺殻殼殽殾殿毀毁毂毃毄毅毆毇毈毉毊毋毌母毎每毐毑毒毓比毕毖毗毘毙毚毛毜毝毞毟毠毡毢毣毤毥毦毧毨毩毪毫毬毭毮毯毰毱毲毳毴毵毶毷毸毹毺毻毼毽毾毿",
      "沀沁沂沃沄沅沆沇沈沉沊沋沌沍沎沏沐沑沒沓沔沕沖沗沘沙沚沛沜沝沞沟沠没沢沣沤沥沦沧沨沩沪沫沬沭沮沯沰沱沲河沴沵沶沷沸油沺治沼沽沾沿泀況泂泃泄泅泆泇泈泉泊泋泌泍泎泏泐泑泒泓泔法泖泗泘泙泚泛泜泝泞泟泠泡波泣泤泥泦泧注泩泪泫泬泭泮泯泰泱泲泳泴泵泶泷泸泹泺泻泼泽泾泿",
      "涀涁涂涃涄涅涆涇消涉涊涋涌涍涎涏涐涑涒涓涔涕涖涗涘涙涚涛涜涝涞涟涠涡涢涣涤涥润涧涨涩涪涫涬涭涮涯涰涱液涳涴涵涶涷涸涹涺涻涼涽涾涿淀淁淂淃淄淅淆淇淈淉淊淋淌淍淎淏淐淑淒淓淔淕淖淗淘淙淚淛淜淝淞淟淠淡淢淣淤淥淦淧淨淩淪淫淬淭淮淯淰深淲淳淴淵淶混淸淹淺添淼淽淾淿",
      "満溁溂溃溄溅溆溇溈溉溊溋溌溍溎溏源溑溒溓溔溕準溗溘溙溚溛溜溝溞溟溠溡溢溣溤溥溦溧溨溩溪溫溬溭溮溯溰溱溲溳溴溵溶溷溸溹溺溻溼溽溾溿滀滁滂滃滄滅滆滇滈滉滊滋滌滍滎滏滐滑滒滓滔滕滖滗滘滙滚滛滜滝滞滟滠满滢滣滤滥滦滧滨滩滪滫滬滭滮滯滰滱滲滳滴滵滶滷滸滹滺滻滼滽滾滿",
      "澀澁澂澃澄澅澆澇澈澉澊澋澌澍澎澏澐澑澒澓澔澕澖澗澘澙澚澛澜澝澞澟澠澡澢澣澤澥澦澧澨澩澪澫澬澭澮澯澰澱澲澳澴澵澶澷澸澹澺澻澼澽澾澿激濁濂濃濄濅濆濇濈濉濊濋濌濍濎濏濐濑濒濓濔濕濖濗濘濙濚濛濜濝濞濟濠濡濢濣濤濥濦濧濨濩濪濫濬濭濮濯濰濱濲濳濴濵濶濷濸濹濺濻濼濽濾濿",
      "炀炁炂炃炄炅炆炇炈炉炊炋炌炍炎炏炐炑炒炓炔炕炖炗炘炙炚炛炜炝炞炟炠炡炢炣炤炥炦炧炨炩炪炫炬炭炮炯炰炱炲炳炴炵炶炷炸点為炻炼炽炾炿烀烁烂烃烄烅烆烇烈烉烊烋烌烍烎烏烐烑烒烓烔烕烖烗烘烙烚烛烜烝烞烟烠烡烢烣烤烥烦烧烨烩烪烫烬热烮烯烰烱烲烳烴烵烶烷烸烹烺烻烼烽烾烿",
      "熀熁熂熃熄熅熆熇熈熉熊熋熌熍熎熏熐熑熒熓熔熕熖熗熘熙熚熛熜熝熞熟熠熡熢熣熤熥熦熧熨熩熪熫熬熭熮熯熰熱熲熳熴熵熶熷熸熹熺熻熼熽熾熿燀燁燂燃燄燅燆燇燈燉燊燋燌燍燎燏燐燑燒燓燔燕燖燗燘燙燚燛燜燝燞營燠燡燢燣燤燥燦燧燨燩燪燫燬燭燮燯燰燱燲燳燴燵燶燷燸燹燺燻燼燽燾燿",
      "犀犁犂犃犄犅犆犇犈犉犊犋犌犍犎犏犐犑犒犓犔犕犖犗犘犙犚犛犜犝犞犟犠犡犢犣犤犥犦犧犨犩犪犫犬犭犮犯犰犱犲犳犴犵状犷犸犹犺犻犼犽犾犿狀狁狂狃狄狅狆狇狈狉狊狋狌狍狎狏狐狑狒狓狔狕狖狗狘狙狚狛狜狝狞狟狠狡狢狣狤狥狦狧狨狩狪狫独狭狮狯狰狱狲狳狴狵狶狷狸狹狺狻狼狽狾狿",
      "玀玁玂玃玄玅玆率玈玉玊王玌玍玎玏玐玑玒玓玔玕玖玗玘玙玚玛玜玝玞玟玠玡玢玣玤玥玦玧玨玩玪玫玬玭玮环现玱玲玳玴玵玶玷玸玹玺玻玼玽玾玿珀珁珂珃珄珅珆珇珈珉珊珋珌珍珎珏珐珑珒珓珔珕珖珗珘珙珚珛珜珝珞珟珠珡珢珣珤珥珦珧珨珩珪珫珬班珮珯珰珱珲珳珴珵珶珷珸珹珺珻珼珽現珿",
      "璀璁璂璃璄璅璆璇璈璉璊璋璌璍璎璏璐璑璒璓璔璕璖璗璘璙璚璛璜璝璞璟璠璡璢璣璤璥璦璧璨璩璪璫璬璭璮璯環璱璲璳璴璵璶璷璸璹璺璻璼璽璾璿瓀瓁瓂瓃瓄瓅瓆瓇瓈瓉瓊瓋瓌瓍瓎瓏瓐瓑瓒瓓瓔瓕瓖瓗瓘瓙瓚瓛瓜瓝瓞瓟瓠瓡瓢瓣瓤瓥瓦瓧瓨瓩瓪瓫瓬瓭瓮瓯瓰瓱瓲瓳瓴瓵瓶瓷瓸瓹瓺瓻瓼瓽瓾瓿",
      "疀疁疂疃疄疅疆疇疈疉疊疋疌疍疎疏疐疑疒疓疔疕疖疗疘疙疚疛疜疝疞疟疠疡疢疣疤疥疦疧疨疩疪疫疬疭疮疯疰疱疲疳疴疵疶疷疸疹疺疻疼疽疾疿痀痁痂痃痄病痆症痈痉痊痋痌痍痎痏痐痑痒痓痔痕痖痗痘痙痚痛痜痝痞痟痠痡痢痣痤痥痦痧痨痩痪痫痬痭痮痯痰痱痲痳痴痵痶痷痸痹痺痻痼痽痾痿",
      "皀皁皂皃的皅皆皇皈皉皊皋皌皍皎皏皐皑皒皓皔皕皖皗皘皙皚皛皜皝皞皟皠皡皢皣皤皥皦皧皨皩皪皫皬皭皮皯皰皱皲皳皴皵皶皷皸皹皺皻皼皽皾皿盀盁盂盃盄盅盆盇盈盉益盋盌盍盎盏盐监盒盓盔盕盖盗盘盙盚盛盜盝盞盟盠盡盢監盤盥盦盧盨盩盪盫盬盭目盯盰盱盲盳直盵盶盷相盹盺盻盼盽盾盿",
      "瞀瞁瞂瞃瞄瞅瞆瞇瞈瞉瞊瞋瞌瞍瞎瞏瞐瞑瞒瞓瞔瞕瞖瞗瞘瞙瞚瞛瞜瞝瞞瞟瞠瞡瞢瞣瞤瞥瞦瞧瞨瞩瞪瞫瞬瞭瞮瞯瞰瞱瞲瞳瞴瞵瞶瞷瞸瞹瞺瞻瞼瞽瞾瞿矀矁矂矃矄矅矆矇矈矉矊矋矌矍矎矏矐矑矒矓矔矕矖矗矘矙矚矛矜矝矞矟矠矡矢矣矤知矦矧矨矩矪矫矬短矮矯矰矱矲石矴矵矶矷矸矹矺矻矼矽矾矿",
      "碀碁碂碃碄碅碆碇碈碉碊碋碌碍碎碏碐碑碒碓碔碕碖碗碘碙碚碛碜碝碞碟碠碡碢碣碤碥碦碧碨碩碪碫碬碭碮碯碰碱碲碳碴碵碶碷碸碹確碻碼碽碾碿磀磁磂磃磄磅磆磇磈磉磊磋磌磍磎磏磐磑磒磓磔磕磖磗磘磙磚磛磜磝磞磟磠磡磢磣磤磥磦磧磨磩磪磫磬磭磮磯磰磱磲磳磴磵磶磷磸磹磺磻磼磽磾磿",
      "禀禁禂禃禄禅禆禇禈禉禊禋禌禍禎福禐禑禒禓禔禕禖禗禘禙禚禛禜禝禞禟禠禡禢禣禤禥禦禧禨禩禪禫禬禭禮禯禰禱禲禳禴禵禶禷禸禹禺离禼禽禾禿秀私秂秃秄秅秆秇秈秉秊秋秌种秎秏秐科秒秓秔秕秖秗秘秙秚秛秜秝秞租秠秡秢秣秤秥秦秧秨秩秪秫秬秭秮积称秱秲秳秴秵秶秷秸秹秺移秼秽秾秿",
      "窀突窂窃窄窅窆窇窈窉窊窋窌窍窎窏窐窑窒窓窔窕窖窗窘窙窚窛窜窝窞窟窠窡窢窣窤窥窦窧窨窩窪窫窬窭窮窯窰窱窲窳窴窵窶窷窸窹窺窻窼窽窾窿竀竁竂竃竄竅竆竇竈竉竊立竌竍竎竏竐竑竒竓竔竕竖竗竘站竚竛竜竝竞竟章竡竢竣竤童竦竧竨竩竪竫竬竭竮端竰竱竲竳竴竵競竷竸竹竺竻竼竽竾竿",
      "简箁箂箃箄箅箆箇箈箉箊箋箌箍箎箏箐箑箒箓箔箕箖算箘箙箚箛箜箝箞箟箠管箢箣箤箥箦箧箨箩箪箫箬箭箮箯箰箱箲箳箴箵箶箷箸箹箺箻箼箽箾箿節篁篂篃範篅篆篇篈築篊篋篌篍篎篏篐篑篒篓篔篕篖篗篘篙篚篛篜篝篞篟篠篡篢篣篤篥篦篧篨篩篪篫篬篭篮篯篰篱篲篳篴篵篶篷篸篹篺篻篼篽篾篿",
      "粀粁粂粃粄粅粆粇粈粉粊粋粌粍粎粏粐粑粒粓粔粕粖粗粘粙粚粛粜粝粞粟粠粡粢粣粤粥粦粧粨粩粪粫粬粭粮粯粰粱粲粳粴粵粶粷粸粹粺粻粼粽精粿糀糁糂糃糄糅糆糇糈糉糊糋糌糍糎糏糐糑糒糓糔糕糖糗糘糙糚糛糜糝糞糟糠糡糢糣糤糥糦糧糨糩糪糫糬糭糮糯糰糱糲糳糴糵糶糷糸糹糺系糼糽糾糿",
      "綀綁綂綃綄綅綆綇綈綉綊綋綌綍綎綏綐綑綒經綔綕綖綗綘継続綛綜綝綞綟綠綡綢綣綤綥綦綧綨綩綪綫綬維綮綯綰綱網綳綴綵綶綷綸綹綺綻綼綽綾綿緀緁緂緃緄緅緆緇緈緉緊緋緌緍緎総緐緑緒緓緔緕緖緗緘緙線緛緜緝緞緟締緡緢緣緤緥緦緧編緩緪緫緬緭緮緯緰緱緲緳練緵緶緷緸緹緺緻緼緽緾緿",
      "纀纁纂纃纄纅纆纇纈纉纊纋續纍纎纏纐纑纒纓纔纕纖纗纘纙纚纛纜纝纞纟纠纡红纣纤纥约级纨纩纪纫纬纭纮纯纰纱纲纳纴纵纶纷纸纹纺纻纼纽纾线绀绁绂练组绅细织终绉绊绋绌绍绎经绐绑绒结绔绕绖绗绘给绚绛络绝绞统绠绡绢绣绤绥绦继绨绩绪绫绬续绮绯绰绱绲绳维绵绶绷绸绹绺绻综绽绾绿",
      "羀羁羂羃羄羅羆羇羈羉羊羋羌羍美羏羐羑羒羓羔羕羖羗羘羙羚羛羜羝羞羟羠羡羢羣群羥羦羧羨義羪羫羬羭羮羯羰羱羲羳羴羵羶羷羸羹羺羻羼羽羾羿翀翁翂翃翄翅翆翇翈翉翊翋翌翍翎翏翐翑習翓翔翕翖翗翘翙翚翛翜翝翞翟翠翡翢翣翤翥翦翧翨翩翪翫翬翭翮翯翰翱翲翳翴翵翶翷翸翹翺翻翼翽翾翿",
      "肀肁肂肃肄肅肆肇肈肉肊肋肌肍肎肏肐肑肒肓肔肕肖肗肘肙肚肛肜肝肞肟肠股肢肣肤肥肦肧肨肩肪肫肬肭肮肯肰肱育肳肴肵肶肷肸肹肺肻肼肽肾肿胀胁胂胃胄胅胆胇胈胉胊胋背胍胎胏胐胑胒胓胔胕胖胗胘胙胚胛胜胝胞胟胠胡胢胣胤胥胦胧胨胩胪胫胬胭胮胯胰胱胲胳胴胵胶胷胸胹胺胻胼能胾胿",
      "膀膁膂膃膄膅膆膇膈膉膊膋膌膍膎膏膐膑膒膓膔膕膖膗膘膙膚膛膜膝膞膟膠膡膢膣膤膥膦膧膨膩膪膫膬膭膮膯膰膱膲膳膴膵膶膷膸膹膺膻膼膽膾膿臀臁臂臃臄臅臆臇臈臉臊臋臌臍臎臏臐臑臒臓臔臕臖臗臘臙臚臛臜臝臞臟臠臡臢臣臤臥臦臧臨臩自臫臬臭臮臯臰臱臲至致臵臶臷臸臹臺臻臼臽臾臿",
      "芀芁节芃芄芅芆芇芈芉芊芋芌芍芎芏芐芑芒芓芔芕芖芗芘芙芚芛芜芝芞芟芠芡芢芣芤芥芦芧芨芩芪芫芬芭芮芯芰花芲芳芴芵芶芷芸芹芺芻芼芽芾芿苀苁苂苃苄苅苆苇苈苉苊苋苌苍苎苏苐苑苒苓苔苕苖苗苘苙苚苛苜苝苞苟苠苡苢苣苤若苦苧苨苩苪苫苬苭苮苯苰英苲苳苴苵苶苷苸苹苺苻苼苽苾苿",
      "莀莁莂莃莄莅莆莇莈莉莊莋莌莍莎莏莐莑莒莓莔莕莖莗莘莙莚莛莜莝莞莟莠莡莢莣莤莥莦莧莨莩莪莫莬莭莮莯莰莱莲莳莴莵莶获莸莹莺莻莼莽莾莿菀菁菂菃菄菅菆菇菈菉菊菋菌菍菎菏菐菑菒菓菔菕菖菗菘菙菚菛菜菝菞菟菠菡菢菣菤菥菦菧菨菩菪菫菬菭菮華菰菱菲菳菴菵菶菷菸菹菺菻菼菽菾菿",
      "蒀蒁蒂蒃蒄蒅蒆蒇蒈蒉蒊蒋蒌蒍蒎蒏蒐蒑蒒蒓蒔蒕蒖蒗蒘蒙蒚蒛蒜蒝蒞蒟蒠蒡蒢蒣蒤蒥蒦蒧蒨蒩蒪蒫蒬蒭蒮蒯蒰蒱蒲蒳蒴蒵蒶蒷蒸蒹蒺蒻蒼蒽蒾蒿蓀蓁蓂蓃蓄蓅蓆蓇蓈蓉蓊蓋蓌蓍蓎蓏蓐蓑蓒蓓蓔蓕蓖蓗蓘蓙蓚蓛蓜蓝蓞蓟蓠蓡蓢蓣蓤蓥蓦蓧蓨蓩蓪蓫蓬蓭蓮蓯蓰蓱蓲蓳蓴蓵蓶蓷蓸蓹蓺蓻蓼蓽蓾蓿",
      "薀薁薂薃薄薅薆薇薈薉薊薋薌薍薎薏薐薑薒薓薔薕薖薗薘薙薚薛薜薝薞薟薠薡薢薣薤薥薦薧薨薩薪薫薬薭薮薯薰薱薲薳薴薵薶薷薸薹薺薻薼薽薾薿藀藁藂藃藄藅藆藇藈藉藊藋藌藍藎藏藐藑藒藓藔藕藖藗藘藙藚藛藜藝藞藟藠藡藢藣藤藥藦藧藨藩藪藫藬藭藮藯藰藱藲藳藴藵藶藷藸藹藺藻藼藽藾藿",
      "蚀蚁蚂蚃蚄蚅蚆蚇蚈蚉蚊蚋蚌蚍蚎蚏蚐蚑蚒蚓蚔蚕蚖蚗蚘蚙蚚蚛蚜蚝蚞蚟蚠蚡蚢蚣蚤蚥蚦蚧蚨蚩蚪蚫蚬蚭蚮蚯蚰蚱蚲蚳蚴蚵蚶蚷蚸蚹蚺蚻蚼蚽蚾蚿蛀蛁蛂蛃蛄蛅蛆蛇蛈蛉蛊蛋蛌蛍蛎蛏蛐蛑蛒蛓蛔蛕蛖蛗蛘蛙蛚蛛蛜蛝蛞蛟蛠蛡蛢蛣蛤蛥蛦蛧蛨蛩蛪蛫蛬蛭蛮蛯蛰蛱蛲蛳蛴蛵蛶蛷蛸蛹蛺蛻蛼蛽蛾蛿",
      "螀螁螂螃螄螅螆螇螈螉螊螋螌融螎螏螐螑螒螓螔螕螖螗螘螙螚螛螜螝螞螟螠螡螢螣螤螥螦螧螨螩螪螫螬螭螮螯螰螱螲螳螴螵螶螷螸螹螺螻螼螽螾螿蟀蟁蟂蟃蟄蟅蟆蟇蟈蟉蟊蟋蟌蟍蟎蟏蟐蟑蟒蟓蟔蟕蟖蟗蟘蟙蟚蟛蟜蟝蟞蟟蟠蟡蟢蟣蟤蟥蟦蟧蟨蟩蟪蟫蟬蟭蟮蟯蟰蟱蟲蟳蟴蟵蟶蟷蟸蟹蟺蟻蟼蟽蟾蟿",
      "袀袁袂袃袄袅袆袇袈袉袊袋袌袍袎袏袐袑袒袓袔袕袖袗袘袙袚袛袜袝袞袟袠袡袢袣袤袥袦袧袨袩袪被袬袭袮袯袰袱袲袳袴袵袶袷袸袹袺袻袼袽袾袿裀裁裂裃裄装裆裇裈裉裊裋裌裍裎裏裐裑裒裓裔裕裖裗裘裙裚裛補裝裞裟裠裡裢裣裤裥裦裧裨裩裪裫裬裭裮裯裰裱裲裳裴裵裶裷裸裹裺裻裼製裾裿",
      "覀要覂覃覄覅覆覇覈覉覊見覌覍覎規覐覑覒覓覔覕視覗覘覙覚覛覜覝覞覟覠覡覢覣覤覥覦覧覨覩親覫覬覭覮覯覰覱覲観覴覵覶覷覸覹覺覻覼覽覾覿觀见观觃规觅视觇览觉觊觋觌觍觎觏觐觑角觓觔觕觖觗觘觙觚觛觜觝觞觟觠觡觢解觤觥触觧觨觩觪觫觬觭觮觯觰觱觲觳觴觵觶觷觸觹觺觻觼觽觾觿",
      "誀誁誂誃誄誅誆誇誈誉誊誋誌認誎誏誐誑誒誓誔誕誖誗誘誙誚誛誜誝語誟誠誡誢誣誤誥誦誧誨誩說誫説読誮誯誰誱課誳誴誵誶誷誸誹誺誻誼誽誾調諀諁諂諃諄諅諆談諈諉諊請諌諍諎諏諐諑諒諓諔諕論諗諘諙諚諛諜諝諞諟諠諡諢諣諤諥諦諧諨諩諪諫諬諭諮諯諰諱諲諳諴諵諶諷諸諹諺諻諼諽諾諿",
      "讀讁讂讃讄讅讆讇讈讉變讋讌讍讎讏讐讑讒讓讔讕讖讗讘讙讚讛讜讝讞讟讠计订讣认讥讦讧讨让讪讫讬训议讯记讱讲讳讴讵讶讷许讹论讻讼讽设访诀证诂诃评诅识诇诈诉诊诋诌词诎诏诐译诒诓诔试诖诗诘诙诚诛诜话诞诟诠诡询诣诤该详诧诨诩诪诫诬语诮误诰诱诲诳说诵诶请诸诹诺读诼诽课诿",
      "貀貁貂貃貄貅貆貇貈貉貊貋貌貍貎貏貐貑貒貓貔貕貖貗貘貙貚貛貜貝貞貟負財貢貣貤貥貦貧貨販貪貫責貭貮貯貰貱貲貳貴貵貶買貸貹貺費貼貽貾貿賀賁賂賃賄賅賆資賈賉賊賋賌賍賎賏賐賑賒賓賔賕賖賗賘賙賚賛賜賝賞賟賠賡賢賣賤賥賦賧賨賩質賫賬賭賮賯賰賱賲賳賴賵賶賷賸賹賺賻購賽賾賿",
      "趀趁趂趃趄超趆趇趈趉越趋趌趍趎趏趐趑趒趓趔趕趖趗趘趙趚趛趜趝趞趟趠趡趢趣趤趥趦趧趨趩趪趫趬趭趮趯趰趱趲足趴趵趶趷趸趹趺趻趼趽趾趿跀跁跂跃跄跅跆跇跈跉跊跋跌跍跎跏跐跑跒跓跔跕跖跗跘跙跚跛跜距跞跟跠跡跢跣跤跥跦跧跨跩跪跫跬跭跮路跰跱跲跳跴践跶跷跸跹跺跻跼跽跾跿",
      "躀躁躂躃躄躅躆躇躈躉躊躋躌躍躎躏躐躑躒躓躔躕躖躗躘躙躚躛躜躝躞躟躠躡躢躣躤躥躦躧躨躩躪身躬躭躮躯躰躱躲躳躴躵躶躷躸躹躺躻躼躽躾躿軀軁軂軃軄軅軆軇軈軉車軋軌軍軎軏軐軑軒軓軔軕軖軗軘軙軚軛軜軝軞軟軠軡転軣軤軥軦軧軨軩軪軫軬軭軮軯軰軱軲軳軴軵軶軷軸軹軺軻軼軽軾軿",
      "辀辁辂较辄辅辆辇辈辉辊辋辌辍辎辏辐辑辒输辔辕辖辗辘辙辚辛辜辝辞辟辠辡辢辣辤辥辦辧辨辩辪辫辬辭辮辯辰辱農辳辴辵辶辷辸边辺辻込辽达辿迀迁迂迃迄迅迆过迈迉迊迋迌迍迎迏运近迒迓返迕迖迗还这迚进远违连迟迠迡迢迣迤迥迦迧迨迩迪迫迬迭迮迯述迱迲迳迴迵迶迷迸迹迺迻迼追迾迿",
      "邀邁邂邃還邅邆邇邈邉邊邋邌邍邎邏邐邑邒邓邔邕邖邗邘邙邚邛邜邝邞邟邠邡邢那邤邥邦邧邨邩邪邫邬邭邮邯邰邱邲邳邴邵邶邷邸邹邺邻邼邽邾邿郀郁郂郃郄郅郆郇郈郉郊郋郌郍郎郏郐郑郒郓郔郕郖郗郘郙郚郛郜郝郞郟郠郡郢郣郤郥郦郧部郩郪郫郬郭郮郯郰郱郲郳郴郵郶郷郸郹郺郻郼都郾郿",
      "醀醁醂醃醄醅醆醇醈醉醊醋醌醍醎醏醐醑醒醓醔醕醖醗醘醙醚醛醜醝醞醟醠醡醢醣醤醥醦醧醨醩醪醫醬醭醮醯醰醱醲醳醴醵醶醷醸醹醺醻醼醽醾醿釀釁釂釃釄釅釆采釈釉释釋里重野量釐金釒釓釔釕釖釗釘釙釚釛釜針釞釟釠釡釢釣釤釥釦釧釨釩釪釫釬釭釮釯釰釱釲釳釴釵釶釷釸釹釺釻釼釽釾釿",
      "銀銁銂銃銄銅銆銇銈銉銊銋銌銍銎銏銐銑銒銓銔銕銖銗銘銙銚銛銜銝銞銟銠銡銢銣銤銥銦銧銨銩銪銫銬銭銮銯銰銱銲銳銴銵銶銷銸銹銺銻銼銽銾銿鋀鋁鋂鋃鋄鋅鋆鋇鋈鋉鋊鋋鋌鋍鋎鋏鋐鋑鋒鋓鋔鋕鋖鋗鋘鋙鋚鋛鋜鋝鋞鋟鋠鋡鋢鋣鋤鋥鋦鋧鋨鋩鋪鋫鋬鋭鋮鋯鋰鋱鋲鋳鋴鋵鋶鋷鋸鋹鋺鋻鋼鋽鋾鋿",
      "鎀鎁鎂鎃鎄鎅鎆鎇鎈鎉鎊鎋鎌鎍鎎鎏鎐鎑鎒鎓鎔鎕鎖鎗鎘鎙鎚鎛鎜鎝鎞鎟鎠鎡鎢鎣鎤鎥鎦鎧鎨鎩鎪鎫鎬鎭鎮鎯鎰鎱鎲鎳鎴鎵鎶鎷鎸鎹鎺鎻鎼鎽鎾鎿鏀鏁鏂鏃鏄鏅鏆鏇鏈鏉鏊鏋鏌鏍鏎鏏鏐鏑鏒鏓鏔鏕鏖鏗鏘鏙鏚鏛鏜鏝鏞鏟鏠鏡鏢鏣鏤鏥鏦鏧鏨鏩鏪鏫鏬鏭鏮鏯鏰鏱鏲鏳鏴鏵鏶鏷鏸鏹鏺鏻鏼鏽鏾鏿",
      "钀钁钂钃钄钅钆钇针钉钊钋钌钍钎钏钐钑钒钓钔钕钖钗钘钙钚钛钜钝钞钟钠钡钢钣钤钥钦钧钨钩钪钫钬钭钮钯钰钱钲钳钴钵钶钷钸钹钺钻钼钽钾钿铀铁铂铃铄铅铆铇铈铉铊铋铌铍铎铏铐铑铒铓铔铕铖铗铘铙铚铛铜铝铞铟铠铡铢铣铤铥铦铧铨铩铪铫铬铭铮铯铰铱铲铳铴铵银铷铸铹铺铻铼铽链铿",
      "門閁閂閃閄閅閆閇閈閉閊開閌閍閎閏閐閑閒間閔閕閖閗閘閙閚閛閜閝閞閟閠閡関閣閤閥閦閧閨閩閪閫閬閭閮閯閰閱閲閳閴閵閶閷閸閹閺閻閼閽閾閿闀闁闂闃闄闅闆闇闈闉闊闋闌闍闎闏闐闑闒闓闔闕闖闗闘闙闚闛關闝闞闟闠闡闢闣闤闥闦闧门闩闪闫闬闭问闯闰闱闲闳间闵闶闷闸闹闺闻闼闽闾闿",
      "隀隁隂隃隄隅隆隇隈隉隊隋隌隍階随隐隑隒隓隔隕隖隗隘隙隚際障隝隞隟隠隡隢隣隤隥隦隧隨隩險隫隬隭隮隯隰隱隲隳隴隵隶隷隸隹隺隻隼隽难隿雀雁雂雃雄雅集雇雈雉雊雋雌雍雎雏雐雑雒雓雔雕雖雗雘雙雚雛雜雝雞雟雠雡離難雤雥雦雧雨雩雪雫雬雭雮雯雰雱雲雳雴雵零雷雸雹雺電雼雽雾雿",
      "鞀鞁鞂鞃鞄鞅鞆鞇鞈鞉鞊鞋鞌鞍鞎鞏鞐鞑鞒鞓鞔鞕鞖鞗鞘鞙鞚鞛鞜鞝鞞鞟鞠鞡鞢鞣鞤鞥鞦鞧鞨鞩鞪鞫鞬鞭鞮鞯鞰鞱鞲鞳鞴鞵鞶鞷鞸鞹鞺鞻鞼鞽鞾鞿韀韁韂韃韄韅韆韇韈韉韊韋韌韍韎韏韐韑韒韓韔韕韖韗韘韙韚韛韜韝韞韟韠韡韢韣韤韥韦韧韨韩韪韫韬韭韮韯韰韱韲音韴韵韶韷韸韹韺韻韼韽韾響",
      "颀颁颂颃预颅领颇颈颉颊颋颌颍颎颏颐频颒颓颔颕颖颗题颙颚颛颜额颞颟颠颡颢颣颤颥颦颧風颩颪颫颬颭颮颯颰颱颲颳颴颵颶颷颸颹颺颻颼颽颾颿飀飁飂飃飄飅飆飇飈飉飊飋飌飍风飏飐飑飒飓飔飕飖飗飘飙飚飛飜飝飞食飠飡飢飣飤飥飦飧飨飩飪飫飬飭飮飯飰飱飲飳飴飵飶飷飸飹飺飻飼飽飾飿",
      "馀馁馂馃馄馅馆馇馈馉馊馋馌馍馎馏馐馑馒馓馔馕首馗馘香馚馛馜馝馞馟馠馡馢馣馤馥馦馧馨馩馪馫馬馭馮馯馰馱馲馳馴馵馶馷馸馹馺馻馼馽馾馿駀駁駂駃駄駅駆駇駈駉駊駋駌駍駎駏駐駑駒駓駔駕駖駗駘駙駚駛駜駝駞駟駠駡駢駣駤駥駦駧駨駩駪駫駬駭駮駯駰駱駲駳駴駵駶駷駸駹駺駻駼駽駾駿",
      "骀骁骂骃骄骅骆骇骈骉骊骋验骍骎骏骐骑骒骓骔骕骖骗骘骙骚骛骜骝骞骟骠骡骢骣骤骥骦骧骨骩骪骫骬骭骮骯骰骱骲骳骴骵骶骷骸骹骺骻骼骽骾骿髀髁髂髃髄髅髆髇髈髉髊髋髌髍髎髏髐髑髒髓體髕髖髗高髙髚髛髜髝髞髟髠髡髢髣髤髥髦髧髨髩髪髫髬髭髮髯髰髱髲髳髴髵髶髷髸髹髺髻髼髽髾髿",
      "鮀鮁鮂鮃鮄鮅鮆鮇鮈鮉鮊鮋鮌鮍鮎鮏鮐鮑鮒鮓鮔鮕鮖鮗鮘鮙鮚鮛鮜鮝鮞鮟鮠鮡鮢鮣鮤鮥鮦鮧鮨鮩鮪鮫鮬鮭鮮鮯鮰鮱鮲鮳鮴鮵鮶鮷鮸鮹鮺鮻鮼鮽鮾鮿鯀鯁鯂鯃鯄鯅鯆鯇鯈鯉鯊鯋鯌鯍鯎鯏鯐鯑鯒鯓鯔鯕鯖鯗鯘鯙鯚鯛鯜鯝鯞鯟鯠鯡鯢鯣鯤鯥鯦鯧鯨鯩鯪鯫鯬鯭鯮鯯鯰鯱鯲鯳鯴鯵鯶鯷鯸鯹鯺鯻鯼鯽鯾鯿",
      "鲀鲁鲂鲃鲄鲅鲆鲇鲈鲉鲊鲋鲌鲍鲎鲏鲐鲑鲒鲓鲔鲕鲖鲗鲘鲙鲚鲛鲜鲝鲞鲟鲠鲡鲢鲣鲤鲥鲦鲧鲨鲩鲪鲫鲬鲭鲮鲯鲰鲱鲲鲳鲴鲵鲶鲷鲸鲹鲺鲻鲼鲽鲾鲿鳀鳁鳂鳃鳄鳅鳆鳇鳈鳉鳊鳋鳌鳍鳎鳏鳐鳑鳒鳓鳔鳕鳖鳗鳘鳙鳚鳛鳜鳝鳞鳟鳠鳡鳢鳣鳤鳥鳦鳧鳨鳩鳪鳫鳬鳭鳮鳯鳰鳱鳲鳳鳴鳵鳶鳷鳸鳹鳺鳻鳼鳽鳾鳿",
      "鶀鶁鶂鶃鶄鶅鶆鶇鶈鶉鶊鶋鶌鶍鶎鶏鶐鶑鶒鶓鶔鶕鶖鶗鶘鶙鶚鶛鶜鶝鶞鶟鶠鶡鶢鶣鶤鶥鶦鶧鶨鶩鶪鶫鶬鶭鶮鶯鶰鶱鶲鶳鶴鶵鶶鶷鶸鶹鶺鶻鶼鶽鶾鶿鷀鷁鷂鷃鷄鷅鷆鷇鷈鷉鷊鷋鷌鷍鷎鷏鷐鷑鷒鷓鷔鷕鷖鷗鷘鷙鷚鷛鷜鷝鷞鷟鷠鷡鷢鷣鷤鷥鷦鷧鷨鷩鷪鷫鷬鷭鷮鷯鷰鷱鷲鷳鷴鷵鷶鷷鷸鷹鷺鷻鷼鷽鷾鷿",
      "麀麁麂麃麄麅麆麇麈麉麊麋麌麍麎麏麐麑麒麓麔麕麖麗麘麙麚麛麜麝麞麟麠麡麢麣麤麥麦麧麨麩麪麫麬麭麮麯麰麱麲麳麴麵麶麷麸麹麺麻麼麽麾麿黀黁黂黃黄黅黆黇黈黉黊黋黌黍黎黏黐黑黒黓黔黕黖黗默黙黚黛黜黝點黟黠黡黢黣黤黥黦黧黨黩黪黫黬黭黮黯黰黱黲黳黴黵黶黷黸黹黺黻黼黽黾黿",
      "龀龁龂龃龄龅龆龇龈龉龊龋龌龍龎龏龐龑龒龓龔龕龖龗龘龙龚龛龜龝龞龟龠龡龢龣龤龥龦龧龨龩龪龫龬龭龮龯龰龱龲龳龴龵龶龷龸龹龺龻龼龽龾龿鿀鿁鿂鿃鿄鿅鿆鿇鿈鿉鿊鿋鿌鿍鿎鿏鿐鿑鿒鿓鿔鿕鿖鿗鿘鿙鿚鿛鿜鿝鿞鿟鿠鿡鿢鿣鿤鿥鿦鿧鿨鿩鿪鿫鿬鿭鿮鿯鿰鿱鿲鿳鿴鿵鿶鿷鿸鿹鿺鿻鿼鿽鿾鿿",
      "ꂀꂁꂂꂃꂄꂅꂆꂇꂈꂉꂊꂋꂌꂍꂎꂏꂐꂑꂒꂓꂔꂕꂖꂗꂘꂙꂚꂛꂜꂝꂞꂟꂠꂡꂢꂣꂤꂥꂦꂧꂨꂩꂪꂫꂬꂭꂮꂯꂰꂱꂲꂳꂴꂵꂶꂷꂸꂹꂺꂻꂼꂽꂾꂿꃀꃁꃂꃃꃄꃅꃆꃇꃈꃉꃊꃋꃌꃍꃎꃏꃐꃑꃒꃓꃔꃕꃖꃗꃘꃙꃚꃛꃜꃝꃞꃟꃠꃡꃢꃣꃤꃥꃦꃧꃨꃩꃪꃫꃬꃭꃮꃯꃰꃱꃲꃳꃴꃵꃶꃷꃸꃹꃺꃻꃼꃽꃾꃿ",
      "ꆀꆁꆂꆃꆄꆅꆆꆇꆈꆉꆊꆋꆌꆍꆎꆏꆐꆑꆒꆓꆔꆕꆖꆗꆘꆙꆚꆛꆜꆝꆞꆟꆠꆡꆢꆣꆤꆥꆦꆧꆨꆩꆪꆫꆬꆭꆮꆯꆰꆱꆲꆳꆴꆵꆶꆷꆸꆹꆺꆻꆼꆽꆾꆿꇀꇁꇂꇃꇄꇅꇆꇇꇈꇉꇊꇋꇌꇍꇎꇏꇐꇑꇒꇓꇔꇕꇖꇗꇘꇙꇚꇛꇜꇝꇞꇟꇠꇡꇢꇣꇤꇥꇦꇧꇨꇩꇪꇫꇬꇭꇮꇯꇰꇱꇲꇳꇴꇵꇶꇷꇸꇹꇺꇻꇼꇽꇾꇿ",
      "ꊀꊁꊂꊃꊄꊅꊆꊇꊈꊉꊊꊋꊌꊍꊎꊏꊐꊑꊒꊓꊔꊕꊖꊗꊘꊙꊚꊛꊜꊝꊞꊟꊠꊡꊢꊣꊤꊥꊦꊧꊨꊩꊪꊫꊬꊭꊮꊯꊰꊱꊲꊳꊴꊵꊶꊷꊸꊹꊺꊻꊼꊽꊾꊿꋀꋁꋂꋃꋄꋅꋆꋇꋈꋉꋊꋋꋌꋍꋎꋏꋐꋑꋒꋓꋔꋕꋖꋗꋘꋙꋚꋛꋜꋝꋞꋟꋠꋡꋢꋣꋤꋥꋦꋧꋨꋩꋪꋫꋬꋭꋮꋯꋰꋱꋲꋳꋴꋵꋶꋷꋸꋹꋺꋻꋼꋽꋾꋿ",
      "ꎀꎁꎂꎃꎄꎅꎆꎇꎈꎉꎊꎋꎌꎍꎎꎏꎐꎑꎒꎓꎔꎕꎖꎗꎘꎙꎚꎛꎜꎝꎞꎟꎠꎡꎢꎣꎤꎥꎦꎧꎨꎩꎪꎫꎬꎭꎮꎯꎰꎱꎲꎳꎴꎵꎶꎷꎸꎹꎺꎻꎼꎽꎾꎿꏀꏁꏂꏃꏄꏅꏆꏇꏈꏉꏊꏋꏌꏍꏎꏏꏐꏑꏒꏓꏔꏕꏖꏗꏘꏙꏚꏛꏜꏝꏞꏟꏠꏡꏢꏣꏤꏥꏦꏧꏨꏩꏪꏫꏬꏭꏮꏯꏰꏱꏲꏳꏴꏵꏶꏷꏸꏹꏺꏻꏼꏽꏾꏿ",
      "ꒀꒁꒂꒃꒄꒅꒆꒇꒈꒉꒊꒋꒌ꒍꒎꒏꒐꒑꒒꒓꒔꒕꒖꒗꒘꒙꒚꒛꒜꒝꒞꒟꒠꒡꒢꒣꒤꒥꒦꒧꒨꒩꒪꒫꒬꒭꒮꒯꒰꒱꒲꒳꒴꒵꒶꒷꒸꒹꒺꒻꒼꒽꒾꒿꓀꓁꓂꓃꓄꓅꓆꓇꓈꓉꓊꓋꓌꓍꓎꓏ꓐꓑꓒꓓꓔꓕꓖꓗꓘꓙꓚꓛꓜꓝꓞꓟꓠꓡꓢꓣꓤꓥꓦꓧꓨꓩꓪꓫꓬꓭꓮꓯꓰꓱꓲꓳꓴꓵꓶꓷꓸꓹꓺꓻꓼꓽ꓾꓿",
      "ꖀꖁꖂꖃꖄꖅꖆꖇꖈꖉꖊꖋꖌꖍꖎꖏꖐꖑꖒꖓꖔꖕꖖꖗꖘꖙꖚꖛꖜꖝꖞꖟꖠꖡꖢꖣꖤꖥꖦꖧꖨꖩꖪꖫꖬꖭꖮꖯꖰꖱꖲꖳꖴꖵꖶꖷꖸꖹꖺꖻꖼꖽꖾꖿꗀꗁꗂꗃꗄꗅꗆꗇꗈꗉꗊꗋꗌꗍꗎꗏꗐꗑꗒꗓꗔꗕꗖꗗꗘꗙꗚꗛꗜꗝꗞꗟꗠꗡꗢꗣꗤꗥꗦꗧꗨꗩꗪꗫꗬꗭꗮꗯꗰꗱꗲꗳꗴꗵꗶꗷꗸꗹꗺꗻꗼꗽꗾꗿ",
      "ꚀꚁꚂꚃꚄꚅꚆꚇꚈꚉꚊꚋꚌꚍꚎꚏꚐꚑꚒꚓꚔꚕꚖꚗꚘꚙꚚꚛꚜꚝꚞꚟꚠꚡꚢꚣꚤꚥꚦꚧꚨꚩꚪꚫꚬꚭꚮꚯꚰꚱꚲꚳꚴꚵꚶꚷꚸꚹꚺꚻꚼꚽꚾꚿꛀꛁꛂꛃꛄꛅꛆꛇꛈꛉꛊꛋꛌꛍꛎꛏꛐꛑꛒꛓꛔꛕꛖꛗꛘꛙꛚꛛꛜꛝꛞꛟꛠꛡꛢꛣꛤꛥꛦꛧꛨꛩꛪꛫꛬꛭꛮꛯ꛰꛱꛲꛳꛴꛵꛶꛷꛸꛹꛺꛻꛼꛽꛾꛿",
      "ꞀꞁꞂꞃꞄꞅꞆꞇꞈ꞉꞊ꞋꞌꞍꞎꞏꞐꞑꞒꞓꞔꞕꞖꞗꞘꞙꞚꞛꞜꞝꞞꞟꞠꞡꞢꞣꞤꞥꞦꞧꞨꞩꞪꞫꞬꞭꞮꞯꞰꞱꞲꞳꞴꞵꞶꞷꞸꞹꞺꞻꞼꞽꞾꞿꟀꟁꟂꟃꟄꟅꟆꟇꟈꟉꟊꟋꟌꟍ꟎꟏Ꟑꟑ꟒ꟓ꟔ꟕꟖꟗꟘꟙꟚꟛꟜ꟝꟞꟟꟠꟡꟢꟣꟤꟥꟦꟧꟨꟩꟪꟫꟬꟭꟮꟯꟰꟱ꟲꟳꟴꟵꟶꟷꟸꟹꟺꟻꟼꟽꟾꟿ",
      "ꢀꢁꢂꢃꢄꢅꢆꢇꢈꢉꢊꢋꢌꢍꢎꢏꢐꢑꢒꢓꢔꢕꢖꢗꢘꢙꢚꢛꢜꢝꢞꢟꢠꢡꢢꢣꢤꢥꢦꢧꢨꢩꢪꢫꢬꢭꢮꢯꢰꢱꢲꢳꢴꢵꢶꢷꢸꢹꢺꢻꢼꢽꢾꢿꣀꣁꣂꣃ꣄ꣅ꣆꣇꣈꣉꣊꣋꣌꣍꣎꣏꣐꣑꣒꣓꣔꣕꣖꣗꣘꣙꣚꣛꣜꣝꣞꣟꣠꣡꣢꣣꣤꣥꣦꣧꣨꣩꣪꣫꣬꣭꣮꣯꣰꣱ꣲꣳꣴꣵꣶꣷ꣸꣹꣺ꣻ꣼ꣽꣾꣿ",
      "ꦀꦁꦂꦃꦄꦅꦆꦇꦈꦉꦊꦋꦌꦍꦎꦏꦐꦑꦒꦓꦔꦕꦖꦗꦘꦙꦚꦛꦜꦝꦞꦟꦠꦡꦢꦣꦤꦥꦦꦧꦨꦩꦪꦫꦬꦭꦮꦯꦰꦱꦲ꦳ꦴꦵꦶꦷꦸꦹꦺꦻꦼꦽꦾꦿ꧀꧁꧂꧃꧄꧅꧆꧇꧈꧉꧊꧋꧌꧍꧎ꧏ꧐꧑꧒꧓꧔꧕꧖꧗꧘꧙꧚꧛꧜꧝꧞꧟ꧠꧡꧢꧣꧤꧥꧦꧧꧨꧩꧪꧫꧬꧭꧮꧯ꧰꧱꧲꧳꧴꧵꧶꧷꧸꧹ꧺꧻꧼꧽꧾ꧿",
      "ꪀꪁꪂꪃꪄꪅꪆꪇꪈꪉꪊꪋꪌꪍꪎꪏꪐꪑꪒꪓꪔꪕꪖꪗꪘꪙꪚꪛꪜꪝꪞꪟꪠꪡꪢꪣꪤꪥꪦꪧꪨꪩꪪꪫꪬꪭꪮꪯꪰꪱꪴꪲꪳꪵꪶꪷꪸꪹꪺꪻꪼꪽꪾ꪿ꫀ꫁ꫂ꫃꫄꫅꫆꫇꫈꫉꫊꫋꫌꫍꫎꫏꫐꫑꫒꫓꫔꫕꫖꫗꫘꫙꫚ꫛꫜꫝ꫞꫟ꫠꫡꫢꫣꫤꫥꫦꫧꫨꫩꫪꫫꫬꫭꫮꫯ꫰꫱ꫲꫳꫴꫵ꫶꫷꫸꫹꫺꫻꫼꫽꫾꫿",
      "ꮀꮁꮂꮃꮄꮅꮆꮇꮈꮉꮊꮋꮌꮍꮎꮏꮐꮑꮒꮓꮔꮕꮖꮗꮘꮙꮚꮛꮜꮝꮞꮟꮠꮡꮢꮣꮤꮥꮦꮧꮨꮩꮪꮫꮬꮭꮮꮯꮰꮱꮲꮳꮴꮵꮶꮷꮸꮹꮺꮻꮼꮽꮾꮿꯀꯁꯂꯃꯄꯅꯆꯇꯈꯉꯊꯋꯌꯍꯎꯏꯐꯑꯒꯓꯔꯕꯖꯗꯘꯙꯚꯛꯜꯝꯞꯟꯠꯡꯢꯣꯤꯥꯦꯧꯨꯩꯪ꯫꯬꯭꯮꯯꯰꯱꯲꯳꯴꯵꯶꯷꯸꯹꯺꯻꯼꯽꯾꯿",
      "검겁겂것겄겅겆겇겈겉겊겋게겍겎겏겐겑겒겓겔겕겖겗겘겙겚겛겜겝겞겟겠겡겢겣겤겥겦겧겨격겪겫견겭겮겯결겱겲겳겴겵겶겷겸겹겺겻겼경겾겿곀곁곂곃계곅곆곇곈곉곊곋곌곍곎곏곐곑곒곓곔곕곖곗곘곙곚곛곜곝곞곟고곡곢곣곤곥곦곧골곩곪곫곬곭곮곯곰곱곲곳곴공곶곷곸곹곺곻과곽곾곿",
      "궀궁궂궃궄궅궆궇궈궉궊궋권궍궎궏궐궑궒궓궔궕궖궗궘궙궚궛궜궝궞궟궠궡궢궣궤궥궦궧궨궩궪궫궬궭궮궯궰궱궲궳궴궵궶궷궸궹궺궻궼궽궾궿귀귁귂귃귄귅귆귇귈귉귊귋귌귍귎귏귐귑귒귓귔귕귖귗귘귙귚귛규귝귞귟균귡귢귣귤귥귦귧귨귩귪귫귬귭귮귯귰귱귲귳귴귵귶귷그극귺귻근귽귾귿",
      "꺀꺁꺂꺃꺄꺅꺆꺇꺈꺉꺊꺋꺌꺍꺎꺏꺐꺑꺒꺓꺔꺕꺖꺗꺘꺙꺚꺛꺜꺝꺞꺟꺠꺡꺢꺣꺤꺥꺦꺧꺨꺩꺪꺫꺬꺭꺮꺯꺰꺱꺲꺳꺴꺵꺶꺷꺸꺹꺺꺻꺼꺽꺾꺿껀껁껂껃껄껅껆껇껈껉껊껋껌껍껎껏껐껑껒껓껔껕껖껗께껙껚껛껜껝껞껟껠껡껢껣껤껥껦껧껨껩껪껫껬껭껮껯껰껱껲껳껴껵껶껷껸껹껺껻껼껽껾껿",
      "꾀꾁꾂꾃꾄꾅꾆꾇꾈꾉꾊꾋꾌꾍꾎꾏꾐꾑꾒꾓꾔꾕꾖꾗꾘꾙꾚꾛꾜꾝꾞꾟꾠꾡꾢꾣꾤꾥꾦꾧꾨꾩꾪꾫꾬꾭꾮꾯꾰꾱꾲꾳꾴꾵꾶꾷꾸꾹꾺꾻꾼꾽꾾꾿꿀꿁꿂꿃꿄꿅꿆꿇꿈꿉꿊꿋꿌꿍꿎꿏꿐꿑꿒꿓꿔꿕꿖꿗꿘꿙꿚꿛꿜꿝꿞꿟꿠꿡꿢꿣꿤꿥꿦꿧꿨꿩꿪꿫꿬꿭꿮꿯꿰꿱꿲꿳꿴꿵꿶꿷꿸꿹꿺꿻꿼꿽꿾꿿",
      "낀낁낂낃낄낅낆낇낈낉낊낋낌낍낎낏낐낑낒낓낔낕낖낗나낙낚낛난낝낞낟날낡낢낣낤낥낦낧남납낪낫났낭낮낯낰낱낲낳내낵낶낷낸낹낺낻낼낽낾낿냀냁냂냃냄냅냆냇냈냉냊냋냌냍냎냏냐냑냒냓냔냕냖냗냘냙냚냛냜냝냞냟냠냡냢냣냤냥냦냧냨냩냪냫냬냭냮냯냰냱냲냳냴냵냶냷냸냹냺냻냼냽냾냿",
      "놀놁놂놃놄놅놆놇놈놉놊놋놌농놎놏놐놑높놓놔놕놖놗놘놙놚놛놜놝놞놟놠놡놢놣놤놥놦놧놨놩놪놫놬놭놮놯놰놱놲놳놴놵놶놷놸놹놺놻놼놽놾놿뇀뇁뇂뇃뇄뇅뇆뇇뇈뇉뇊뇋뇌뇍뇎뇏뇐뇑뇒뇓뇔뇕뇖뇗뇘뇙뇚뇛뇜뇝뇞뇟뇠뇡뇢뇣뇤뇥뇦뇧뇨뇩뇪뇫뇬뇭뇮뇯뇰뇱뇲뇳뇴뇵뇶뇷뇸뇹뇺뇻뇼뇽뇾뇿",
      "늀늁늂늃늄늅늆늇늈늉늊늋늌늍늎늏느늑늒늓는늕늖늗늘늙늚늛늜늝늞늟늠늡늢늣늤능늦늧늨늩늪늫늬늭늮늯늰늱늲늳늴늵늶늷늸늹늺늻늼늽늾늿닀닁닂닃닄닅닆닇니닉닊닋닌닍닎닏닐닑닒닓닔닕닖닗님닙닚닛닜닝닞닟닠닡닢닣다닥닦닧단닩닪닫달닭닮닯닰닱닲닳담답닶닷닸당닺닻닼닽닾닿",
      "뎀뎁뎂뎃뎄뎅뎆뎇뎈뎉뎊뎋뎌뎍뎎뎏뎐뎑뎒뎓뎔뎕뎖뎗뎘뎙뎚뎛뎜뎝뎞뎟뎠뎡뎢뎣뎤뎥뎦뎧뎨뎩뎪뎫뎬뎭뎮뎯뎰뎱뎲뎳뎴뎵뎶뎷뎸뎹뎺뎻뎼뎽뎾뎿돀돁돂돃도독돆돇돈돉돊돋돌돍돎돏돐돑돒돓돔돕돖돗돘동돚돛돜돝돞돟돠돡돢돣돤돥돦돧돨돩돪돫돬돭돮돯돰돱돲돳돴돵돶돷돸돹돺돻돼돽돾돿",
      "뒀뒁뒂뒃뒄뒅뒆뒇뒈뒉뒊뒋뒌뒍뒎뒏뒐뒑뒒뒓뒔뒕뒖뒗뒘뒙뒚뒛뒜뒝뒞뒟뒠뒡뒢뒣뒤뒥뒦뒧뒨뒩뒪뒫뒬뒭뒮뒯뒰뒱뒲뒳뒴뒵뒶뒷뒸뒹뒺뒻뒼뒽뒾뒿듀듁듂듃듄듅듆듇듈듉듊듋듌듍듎듏듐듑듒듓듔듕듖듗듘듙듚듛드득듞듟든듡듢듣들듥듦듧듨듩듪듫듬듭듮듯듰등듲듳듴듵듶듷듸듹듺듻듼듽듾듿",
      "떀떁떂떃떄떅떆떇떈떉떊떋떌떍떎떏떐떑떒떓떔떕떖떗떘떙떚떛떜떝떞떟떠떡떢떣떤떥떦떧떨떩떪떫떬떭떮떯떰떱떲떳떴떵떶떷떸떹떺떻떼떽떾떿뗀뗁뗂뗃뗄뗅뗆뗇뗈뗉뗊뗋뗌뗍뗎뗏뗐뗑뗒뗓뗔뗕뗖뗗뗘뗙뗚뗛뗜뗝뗞뗟뗠뗡뗢뗣뗤뗥뗦뗧뗨뗩뗪뗫뗬뗭뗮뗯뗰뗱뗲뗳뗴뗵뗶뗷뗸뗹뗺뗻뗼뗽뗾뗿",
      "뚀뚁뚂뚃뚄뚅뚆뚇뚈뚉뚊뚋뚌뚍뚎뚏뚐뚑뚒뚓뚔뚕뚖뚗뚘뚙뚚뚛뚜뚝뚞뚟뚠뚡뚢뚣뚤뚥뚦뚧뚨뚩뚪뚫뚬뚭뚮뚯뚰뚱뚲뚳뚴뚵뚶뚷뚸뚹뚺뚻뚼뚽뚾뚿뛀뛁뛂뛃뛄뛅뛆뛇뛈뛉뛊뛋뛌뛍뛎뛏뛐뛑뛒뛓뛔뛕뛖뛗뛘뛙뛚뛛뛜뛝뛞뛟뛠뛡뛢뛣뛤뛥뛦뛧뛨뛩뛪뛫뛬뛭뛮뛯뛰뛱뛲뛳뛴뛵뛶뛷뛸뛹뛺뛻뛼뛽뛾뛿",
      "란랁랂랃랄랅랆랇랈랉랊랋람랍랎랏랐랑랒랓랔랕랖랗래랙랚랛랜랝랞랟랠랡랢랣랤랥랦랧램랩랪랫랬랭랮랯랰랱랲랳랴략랶랷랸랹랺랻랼랽랾랿럀럁럂럃럄럅럆럇럈량럊럋럌럍럎럏럐럑럒럓럔럕럖럗럘럙럚럛럜럝럞럟럠럡럢럣럤럥럦럧럨럩럪럫러럭럮럯런럱럲럳럴럵럶럷럸럹럺럻럼럽럾럿",
      "뢀뢁뢂뢃뢄뢅뢆뢇뢈뢉뢊뢋뢌뢍뢎뢏뢐뢑뢒뢓뢔뢕뢖뢗뢘뢙뢚뢛뢜뢝뢞뢟뢠뢡뢢뢣뢤뢥뢦뢧뢨뢩뢪뢫뢬뢭뢮뢯뢰뢱뢲뢳뢴뢵뢶뢷뢸뢹뢺뢻뢼뢽뢾뢿룀룁룂룃룄룅룆룇룈룉룊룋료룍룎룏룐룑룒룓룔룕룖룗룘룙룚룛룜룝룞룟룠룡룢룣룤룥룦룧루룩룪룫룬룭룮룯룰룱룲룳룴룵룶룷룸룹룺룻룼룽룾룿",
      "릀릁릂릃름릅릆릇릈릉릊릋릌릍릎릏릐릑릒릓릔릕릖릗릘릙릚릛릜릝릞릟릠릡릢릣릤릥릦릧릨릩릪릫리릭릮릯린릱릲릳릴릵릶릷릸릹릺릻림립릾릿맀링맂맃맄맅맆맇마막맊맋만맍많맏말맑맒맓맔맕맖맗맘맙맚맛맜망맞맟맠맡맢맣매맥맦맧맨맩맪맫맬맭맮맯맰맱맲맳맴맵맶맷맸맹맺맻맼맽맾맿",
      "몀몁몂몃몄명몆몇몈몉몊몋몌몍몎몏몐몑몒몓몔몕몖몗몘몙몚몛몜몝몞몟몠몡몢몣몤몥몦몧모목몪몫몬몭몮몯몰몱몲몳몴몵몶몷몸몹몺못몼몽몾몿뫀뫁뫂뫃뫄뫅뫆뫇뫈뫉뫊뫋뫌뫍뫎뫏뫐뫑뫒뫓뫔뫕뫖뫗뫘뫙뫚뫛뫜뫝뫞뫟뫠뫡뫢뫣뫤뫥뫦뫧뫨뫩뫪뫫뫬뫭뫮뫯뫰뫱뫲뫳뫴뫵뫶뫷뫸뫹뫺뫻뫼뫽뫾뫿",
      "뮀뮁뮂뮃뮄뮅뮆뮇뮈뮉뮊뮋뮌뮍뮎뮏뮐뮑뮒뮓뮔뮕뮖뮗뮘뮙뮚뮛뮜뮝뮞뮟뮠뮡뮢뮣뮤뮥뮦뮧뮨뮩뮪뮫뮬뮭뮮뮯뮰뮱뮲뮳뮴뮵뮶뮷뮸뮹뮺뮻뮼뮽뮾뮿므믁믂믃믄믅믆믇믈믉믊믋믌믍믎믏믐믑믒믓믔믕믖믗믘믙믚믛믜믝믞믟믠믡믢믣믤믥믦믧믨믩믪믫믬믭믮믯믰믱믲믳믴믵믶믷미믹믺믻민믽믾믿",
      "벀벁벂벃버벅벆벇번벉벊벋벌벍벎벏벐벑벒벓범법벖벗벘벙벚벛벜벝벞벟베벡벢벣벤벥벦벧벨벩벪벫벬벭벮벯벰벱벲벳벴벵벶벷벸벹벺벻벼벽벾벿변볁볂볃별볅볆볇볈볉볊볋볌볍볎볏볐병볒볓볔볕볖볗볘볙볚볛볜볝볞볟볠볡볢볣볤볥볦볧볨볩볪볫볬볭볮볯볰볱볲볳보복볶볷본볹볺볻볼볽볾볿",
      "부북붂붃분붅붆붇불붉붊붋붌붍붎붏붐붑붒붓붔붕붖붗붘붙붚붛붜붝붞붟붠붡붢붣붤붥붦붧붨붩붪붫붬붭붮붯붰붱붲붳붴붵붶붷붸붹붺붻붼붽붾붿뷀뷁뷂뷃뷄뷅뷆뷇뷈뷉뷊뷋뷌뷍뷎뷏뷐뷑뷒뷓뷔뷕뷖뷗뷘뷙뷚뷛뷜뷝뷞뷟뷠뷡뷢뷣뷤뷥뷦뷧뷨뷩뷪뷫뷬뷭뷮뷯뷰뷱뷲뷳뷴뷵뷶뷷뷸뷹뷺뷻뷼뷽뷾뷿",
      "뺀뺁뺂뺃뺄뺅뺆뺇뺈뺉뺊뺋뺌뺍뺎뺏뺐뺑뺒뺓뺔뺕뺖뺗뺘뺙뺚뺛뺜뺝뺞뺟뺠뺡뺢뺣뺤뺥뺦뺧뺨뺩뺪뺫뺬뺭뺮뺯뺰뺱뺲뺳뺴뺵뺶뺷뺸뺹뺺뺻뺼뺽뺾뺿뻀뻁뻂뻃뻄뻅뻆뻇뻈뻉뻊뻋뻌뻍뻎뻏뻐뻑뻒뻓뻔뻕뻖뻗뻘뻙뻚뻛뻜뻝뻞뻟뻠뻡뻢뻣뻤뻥뻦뻧뻨뻩뻪뻫뻬뻭뻮뻯뻰뻱뻲뻳뻴뻵뻶뻷뻸뻹뻺뻻뻼뻽뻾뻿",
      "뾀뾁뾂뾃뾄뾅뾆뾇뾈뾉뾊뾋뾌뾍뾎뾏뾐뾑뾒뾓뾔뾕뾖뾗뾘뾙뾚뾛뾜뾝뾞뾟뾠뾡뾢뾣뾤뾥뾦뾧뾨뾩뾪뾫뾬뾭뾮뾯뾰뾱뾲뾳뾴뾵뾶뾷뾸뾹뾺뾻뾼뾽뾾뾿뿀뿁뿂뿃뿄뿅뿆뿇뿈뿉뿊뿋뿌뿍뿎뿏뿐뿑뿒뿓뿔뿕뿖뿗뿘뿙뿚뿛뿜뿝뿞뿟뿠뿡뿢뿣뿤뿥뿦뿧뿨뿩뿪뿫뿬뿭뿮뿯뿰뿱뿲뿳뿴뿵뿶뿷뿸뿹뿺뿻뿼뿽뿾뿿",
      "삀삁삂삃삄삅삆삇삈삉삊삋삌삍삎삏삐삑삒삓삔삕삖삗삘삙삚삛삜삝삞삟삠삡삢삣삤삥삦삧삨삩삪삫사삭삮삯산삱삲삳살삵삶삷삸삹삺삻삼삽삾삿샀상샂샃샄샅샆샇새색샊샋샌샍샎샏샐샑샒샓샔샕샖샗샘샙샚샛샜생샞샟샠샡샢샣샤샥샦샧샨샩샪샫샬샭샮샯샰샱샲샳샴샵샶샷샸샹샺샻샼샽샾샿",
      "솀솁솂솃솄솅솆솇솈솉솊솋소속솎솏손솑솒솓솔솕솖솗솘솙솚솛솜솝솞솟솠송솢솣솤솥솦솧솨솩솪솫솬솭솮솯솰솱솲솳솴솵솶솷솸솹솺솻솼솽솾솿쇀쇁쇂쇃쇄쇅쇆쇇쇈쇉쇊쇋쇌쇍쇎쇏쇐쇑쇒쇓쇔쇕쇖쇗쇘쇙쇚쇛쇜쇝쇞쇟쇠쇡쇢쇣쇤쇥쇦쇧쇨쇩쇪쇫쇬쇭쇮쇯쇰쇱쇲쇳쇴쇵쇶쇷쇸쇹쇺쇻쇼쇽쇾쇿",
      "슀슁슂슃슄슅슆슇슈슉슊슋슌슍슎슏슐슑슒슓슔슕슖슗슘슙슚슛슜슝슞슟슠슡슢슣스슥슦슧슨슩슪슫슬슭슮슯슰슱슲슳슴습슶슷슸승슺슻슼슽슾슿싀싁싂싃싄싅싆싇싈싉싊싋싌싍싎싏싐싑싒싓싔싕싖싗싘싙싚싛시식싞싟신싡싢싣실싥싦싧싨싩싪싫심십싮싯싰싱싲싳싴싵싶싷싸싹싺싻싼싽싾싿",
      "쎀쎁쎂쎃쎄쎅쎆쎇쎈쎉쎊쎋쎌쎍쎎쎏쎐쎑쎒쎓쎔쎕쎖쎗쎘쎙쎚쎛쎜쎝쎞쎟쎠쎡쎢쎣쎤쎥쎦쎧쎨쎩쎪쎫쎬쎭쎮쎯쎰쎱쎲쎳쎴쎵쎶쎷쎸쎹쎺쎻쎼쎽쎾쎿쏀쏁쏂쏃쏄쏅쏆쏇쏈쏉쏊쏋쏌쏍쏎쏏쏐쏑쏒쏓쏔쏕쏖쏗쏘쏙쏚쏛쏜쏝쏞쏟쏠쏡쏢쏣쏤쏥쏦쏧쏨쏩쏪쏫쏬쏭쏮쏯쏰쏱쏲쏳쏴쏵쏶쏷쏸쏹쏺쏻쏼쏽쏾쏿",
      "쒀쒁쒂쒃쒄쒅쒆쒇쒈쒉쒊쒋쒌쒍쒎쒏쒐쒑쒒쒓쒔쒕쒖쒗쒘쒙쒚쒛쒜쒝쒞쒟쒠쒡쒢쒣쒤쒥쒦쒧쒨쒩쒪쒫쒬쒭쒮쒯쒰쒱쒲쒳쒴쒵쒶쒷쒸쒹쒺쒻쒼쒽쒾쒿쓀쓁쓂쓃쓄쓅쓆쓇쓈쓉쓊쓋쓌쓍쓎쓏쓐쓑쓒쓓쓔쓕쓖쓗쓘쓙쓚쓛쓜쓝쓞쓟쓠쓡쓢쓣쓤쓥쓦쓧쓨쓩쓪쓫쓬쓭쓮쓯쓰쓱쓲쓳쓴쓵쓶쓷쓸쓹쓺쓻쓼쓽쓾쓿",
      "얀얁얂얃얄얅얆얇얈얉얊얋얌얍얎얏얐양얒얓얔얕얖얗얘얙얚얛얜얝얞얟얠얡얢얣얤얥얦얧얨얩얪얫얬얭얮얯얰얱얲얳어억얶얷언얹얺얻얼얽얾얿엀엁엂엃엄업없엇었엉엊엋엌엍엎엏에엑엒엓엔엕엖엗엘엙엚엛엜엝엞엟엠엡엢엣엤엥엦엧엨엩엪엫여역엮엯연엱엲엳열엵엶엷엸엹엺엻염엽엾엿",
      "욀욁욂욃욄욅욆욇욈욉욊욋욌욍욎욏욐욑욒욓요욕욖욗욘욙욚욛욜욝욞욟욠욡욢욣욤욥욦욧욨용욪욫욬욭욮욯우욱욲욳운욵욶욷울욹욺욻욼욽욾욿움웁웂웃웄웅웆웇웈웉웊웋워웍웎웏원웑웒웓월웕웖웗웘웙웚웛웜웝웞웟웠웡웢웣웤웥웦웧웨웩웪웫웬웭웮웯웰웱웲웳웴웵웶웷웸웹웺웻웼웽웾웿",
      "잀잁잂잃임입잆잇있잉잊잋잌잍잎잏자작잒잓잔잕잖잗잘잙잚잛잜잝잞잟잠잡잢잣잤장잦잧잨잩잪잫재잭잮잯잰잱잲잳잴잵잶잷잸잹잺잻잼잽잾잿쟀쟁쟂쟃쟄쟅쟆쟇쟈쟉쟊쟋쟌쟍쟎쟏쟐쟑쟒쟓쟔쟕쟖쟗쟘쟙쟚쟛쟜쟝쟞쟟쟠쟡쟢쟣쟤쟥쟦쟧쟨쟩쟪쟫쟬쟭쟮쟯쟰쟱쟲쟳쟴쟵쟶쟷쟸쟹쟺쟻쟼쟽쟾쟿",
      "좀좁좂좃좄종좆좇좈좉좊좋좌좍좎좏좐좑좒좓좔좕좖좗좘좙좚좛좜좝좞좟좠좡좢좣좤좥좦좧좨좩좪좫좬좭좮좯좰좱좲좳좴좵좶좷좸좹좺좻좼좽좾좿죀죁죂죃죄죅죆죇죈죉죊죋죌죍죎죏죐죑죒죓죔죕죖죗죘죙죚죛죜죝죞죟죠죡죢죣죤죥죦죧죨죩죪죫죬죭죮죯죰죱죲죳죴죵죶죷죸죹죺죻주죽죾죿",
      "즀즁즂즃즄즅즆즇즈즉즊즋즌즍즎즏즐즑즒즓즔즕즖즗즘즙즚즛즜증즞즟즠즡즢즣즤즥즦즧즨즩즪즫즬즭즮즯즰즱즲즳즴즵즶즷즸즹즺즻즼즽즾즿지직짂짃진짅짆짇질짉짊짋짌짍짎짏짐집짒짓짔징짖짗짘짙짚짛짜짝짞짟짠짡짢짣짤짥짦짧짨짩짪짫짬짭짮짯짰짱짲짳짴짵짶짷째짹짺짻짼짽짾짿",
      "쪀쪁쪂쪃쪄쪅쪆쪇쪈쪉쪊쪋쪌쪍쪎쪏쪐쪑쪒쪓쪔쪕쪖쪗쪘쪙쪚쪛쪜쪝쪞쪟쪠쪡쪢쪣쪤쪥쪦쪧쪨쪩쪪쪫쪬쪭쪮쪯쪰쪱쪲쪳쪴쪵쪶쪷쪸쪹쪺쪻쪼쪽쪾쪿쫀쫁쫂쫃쫄쫅쫆쫇쫈쫉쫊쫋쫌쫍쫎쫏쫐쫑쫒쫓쫔쫕쫖쫗쫘쫙쫚쫛쫜쫝쫞쫟쫠쫡쫢쫣쫤쫥쫦쫧쫨쫩쫪쫫쫬쫭쫮쫯쫰쫱쫲쫳쫴쫵쫶쫷쫸쫹쫺쫻쫼쫽쫾쫿",
      "쮀쮁쮂쮃쮄쮅쮆쮇쮈쮉쮊쮋쮌쮍쮎쮏쮐쮑쮒쮓쮔쮕쮖쮗쮘쮙쮚쮛쮜쮝쮞쮟쮠쮡쮢쮣쮤쮥쮦쮧쮨쮩쮪쮫쮬쮭쮮쮯쮰쮱쮲쮳쮴쮵쮶쮷쮸쮹쮺쮻쮼쮽쮾쮿쯀쯁쯂쯃쯄쯅쯆쯇쯈쯉쯊쯋쯌쯍쯎쯏쯐쯑쯒쯓쯔쯕쯖쯗쯘쯙쯚쯛쯜쯝쯞쯟쯠쯡쯢쯣쯤쯥쯦쯧쯨쯩쯪쯫쯬쯭쯮쯯쯰쯱쯲쯳쯴쯵쯶쯷쯸쯹쯺쯻쯼쯽쯾쯿",
      "첀첁첂첃첄첅첆첇첈첉첊첋첌첍첎첏첐첑첒첓첔첕첖첗처척첚첛천첝첞첟철첡첢첣첤첥첦첧첨첩첪첫첬청첮첯첰첱첲첳체첵첶첷첸첹첺첻첼첽첾첿쳀쳁쳂쳃쳄쳅쳆쳇쳈쳉쳊쳋쳌쳍쳎쳏쳐쳑쳒쳓쳔쳕쳖쳗쳘쳙쳚쳛쳜쳝쳞쳟쳠쳡쳢쳣쳤쳥쳦쳧쳨쳩쳪쳫쳬쳭쳮쳯쳰쳱쳲쳳쳴쳵쳶쳷쳸쳹쳺쳻쳼쳽쳾쳿",
      "춀춁춂춃춄춅춆춇춈춉춊춋춌춍춎춏춐춑춒춓추축춖춗춘춙춚춛출춝춞춟춠춡춢춣춤춥춦춧춨충춪춫춬춭춮춯춰춱춲춳춴춵춶춷춸춹춺춻춼춽춾춿췀췁췂췃췄췅췆췇췈췉췊췋췌췍췎췏췐췑췒췓췔췕췖췗췘췙췚췛췜췝췞췟췠췡췢췣췤췥췦췧취췩췪췫췬췭췮췯췰췱췲췳췴췵췶췷췸췹췺췻췼췽췾췿",
      "캀캁캂캃캄캅캆캇캈캉캊캋캌캍캎캏캐캑캒캓캔캕캖캗캘캙캚캛캜캝캞캟캠캡캢캣캤캥캦캧캨캩캪캫캬캭캮캯캰캱캲캳캴캵캶캷캸캹캺캻캼캽캾캿컀컁컂컃컄컅컆컇컈컉컊컋컌컍컎컏컐컑컒컓컔컕컖컗컘컙컚컛컜컝컞컟컠컡컢컣커컥컦컧컨컩컪컫컬컭컮컯컰컱컲컳컴컵컶컷컸컹컺컻컼컽컾컿",
      "쾀쾁쾂쾃쾄쾅쾆쾇쾈쾉쾊쾋쾌쾍쾎쾏쾐쾑쾒쾓쾔쾕쾖쾗쾘쾙쾚쾛쾜쾝쾞쾟쾠쾡쾢쾣쾤쾥쾦쾧쾨쾩쾪쾫쾬쾭쾮쾯쾰쾱쾲쾳쾴쾵쾶쾷쾸쾹쾺쾻쾼쾽쾾쾿쿀쿁쿂쿃쿄쿅쿆쿇쿈쿉쿊쿋쿌쿍쿎쿏쿐쿑쿒쿓쿔쿕쿖쿗쿘쿙쿚쿛쿜쿝쿞쿟쿠쿡쿢쿣쿤쿥쿦쿧쿨쿩쿪쿫쿬쿭쿮쿯쿰쿱쿲쿳쿴쿵쿶쿷쿸쿹쿺쿻쿼쿽쿾쿿",
      "킀킁킂킃킄킅킆킇킈킉킊킋킌킍킎킏킐킑킒킓킔킕킖킗킘킙킚킛킜킝킞킟킠킡킢킣키킥킦킧킨킩킪킫킬킭킮킯킰킱킲킳킴킵킶킷킸킹킺킻킼킽킾킿타탁탂탃탄탅탆탇탈탉탊탋탌탍탎탏탐탑탒탓탔탕탖탗탘탙탚탛태택탞탟탠탡탢탣탤탥탦탧탨탩탪탫탬탭탮탯탰탱탲탳탴탵탶탷탸탹탺탻탼탽탾탿",
      "톀톁톂톃톄톅톆톇톈톉톊톋톌톍톎톏톐톑톒톓톔톕톖톗톘톙톚톛톜톝톞톟토톡톢톣톤톥톦톧톨톩톪톫톬톭톮톯톰톱톲톳톴통톶톷톸톹톺톻톼톽톾톿퇀퇁퇂퇃퇄퇅퇆퇇퇈퇉퇊퇋퇌퇍퇎퇏퇐퇑퇒퇓퇔퇕퇖퇗퇘퇙퇚퇛퇜퇝퇞퇟퇠퇡퇢퇣퇤퇥퇦퇧퇨퇩퇪퇫퇬퇭퇮퇯퇰퇱퇲퇳퇴퇵퇶퇷퇸퇹퇺퇻퇼퇽퇾퇿",
      "튀튁튂튃튄튅튆튇튈튉튊튋튌튍튎튏튐튑튒튓튔튕튖튗튘튙튚튛튜튝튞튟튠튡튢튣튤튥튦튧튨튩튪튫튬튭튮튯튰튱튲튳튴튵튶튷트특튺튻튼튽튾튿틀틁틂틃틄틅틆틇틈틉틊틋틌틍틎틏틐틑틒틓틔틕틖틗틘틙틚틛틜틝틞틟틠틡틢틣틤틥틦틧틨틩틪틫틬틭틮틯티틱틲틳틴틵틶틷틸틹틺틻틼틽틾틿",
      "펀펁펂펃펄펅펆펇펈펉펊펋펌펍펎펏펐펑펒펓펔펕펖펗페펙펚펛펜펝펞펟펠펡펢펣펤펥펦펧펨펩펪펫펬펭펮펯펰펱펲펳펴펵펶펷편펹펺펻펼펽펾펿폀폁폂폃폄폅폆폇폈평폊폋폌폍폎폏폐폑폒폓폔폕폖폗폘폙폚폛폜폝폞폟폠폡폢폣폤폥폦폧폨폩폪폫포폭폮폯폰폱폲폳폴폵폶폷폸폹폺폻폼폽폾폿",
      "풀풁풂풃풄풅풆풇품풉풊풋풌풍풎풏풐풑풒풓풔풕풖풗풘풙풚풛풜풝풞풟풠풡풢풣풤풥풦풧풨풩풪풫풬풭풮풯풰풱풲풳풴풵풶풷풸풹풺풻풼풽풾풿퓀퓁퓂퓃퓄퓅퓆퓇퓈퓉퓊퓋퓌퓍퓎퓏퓐퓑퓒퓓퓔퓕퓖퓗퓘퓙퓚퓛퓜퓝퓞퓟퓠퓡퓢퓣퓤퓥퓦퓧퓨퓩퓪퓫퓬퓭퓮퓯퓰퓱퓲퓳퓴퓵퓶퓷퓸퓹퓺퓻퓼퓽퓾퓿",
      "햀햁햂햃햄햅햆햇했행햊햋햌햍햎햏햐햑햒햓햔햕햖햗햘햙햚햛햜햝햞햟햠햡햢햣햤향햦햧햨햩햪햫햬햭햮햯햰햱햲햳햴햵햶햷햸햹햺햻햼햽햾햿헀헁헂헃헄헅헆헇허헉헊헋헌헍헎헏헐헑헒헓헔헕헖헗험헙헚헛헜헝헞헟헠헡헢헣헤헥헦헧헨헩헪헫헬헭헮헯헰헱헲헳헴헵헶헷헸헹헺헻헼헽헾헿",
      "횀횁횂횃횄횅횆횇횈횉횊횋회획횎횏횐횑횒횓횔횕횖횗횘횙횚횛횜횝횞횟횠횡횢횣횤횥횦횧효횩횪횫횬횭횮횯횰횱횲횳횴횵횶횷횸횹횺횻횼횽횾횿훀훁훂훃후훅훆훇훈훉훊훋훌훍훎훏훐훑훒훓훔훕훖훗훘훙훚훛훜훝훞훟훠훡훢훣훤훥훦훧훨훩훪훫훬훭훮훯훰훱훲훳훴훵훶훷훸훹훺훻훼훽훾훿",
      "힀힁힂힃힄힅힆힇히힉힊힋힌힍힎힏힐힑힒힓힔힕힖힗힘힙힚힛힜힝힞힟힠힡힢힣힤힥힦힧힨힩힪힫힬힭힮힯ힰힱힲힳힴힵힶힷힸힹힺힻힼힽힾힿퟀퟁퟂퟃퟄퟅퟆ퟇퟈퟉퟊ퟋퟌퟍퟎퟏퟐퟑퟒퟓퟔퟕퟖퟗퟘퟙퟚퟛퟜퟝퟞퟟퟠퟡퟢퟣퟤퟥퟦퟧퟨퟩퟪퟫퟬퟭퟮퟯퟰퟱퟲퟳퟴퟵퟶퟷퟸퟹퟺퟻ퟼퟽퟾퟿",
      "",
      "",
      "",
      "",
      "",
      "",
      "",
      "",
      "",
      "",
      "",
      "",
      "",
      "",
      "",
      "",
      "",
      "",
      "",
      "",
      "",
      "",
      "",
      "",
      "",
      "",
      "",
      "",
      "",
      "",
      "",
      "",
      "",
      "呂女廬旅濾礪閭驪麗黎力曆歷轢年憐戀撚漣煉璉秊練聯輦蓮連鍊列劣咽烈裂說廉念捻殮簾獵令囹寧嶺怜玲瑩羚聆鈴零靈領例禮醴隸惡了僚寮尿料樂燎療蓼遼龍暈阮劉杻柳流溜琉留硫紐類六戮陸倫崙淪輪律慄栗率隆利吏履易李梨泥理痢罹裏裡里離匿溺吝燐璘藺隣鱗麟林淋臨立笠粒狀炙識什茶刺",
      "婢嬨廒廙彩徭惘慎愈憎慠懲戴揄搜摒敖晴朗望杖歹殺流滛滋漢瀞煮瞧爵犯猪瑱甆画瘝瘟益盛直睊着磌窱節类絛練缾者荒華蝹襁覆視調諸請謁諾諭謹變贈輸遲醙鉶陼難靖韛響頋頻鬒龜𢡊𢡄𣏕㮝䀘䀹𥉉𥳐𧻓齃龎﫚﫛﫜﫝﫞﫟﫠﫡﫢﫣﫤﫥﫦﫧﫨﫩﫪﫫﫬﫭﫮﫯﫰﫱﫲﫳﫴﫵﫶﫷﫸﫹﫺﫻﫼﫽﫾﫿",
      "ﮀﮁﮂﮃﮄﮅﮆﮇﮈﮉﮊﮋﮌﮍﮎﮏﮐﮑﮒﮓﮔﮕﮖﮗﮘﮙﮚﮛﮜﮝﮞﮟﮠﮡﮢﮣﮤﮥﮦﮧﮨﮩﮪﮫﮬﮭﮮﮯﮰﮱ﮲﮳﮴﮵﮶﮷﮸﮹﮺﮻﮼﮽﮾﮿﯀﯁﯂﯃﯄﯅﯆﯇﯈﯉﯊﯋﯌﯍﯎﯏﯐﯑﯒ﯓﯔﯕﯖﯗﯘﯙﯚﯛﯜﯝﯞﯟﯠﯡﯢﯣﯤﯥﯦﯧﯨﯩﯪﯫﯬﯭﯮﯯﯰﯱﯲﯳﯴﯵﯶﯷﯸﯹﯺﯻﯼﯽﯾﯿ",
      "ﲀﲁﲂﲃﲄﲅﲆﲇﲈﲉﲊﲋﲌﲍﲎﲏﲐﲑﲒﲓﲔﲕﲖﲗﲘﲙﲚﲛﲜﲝﲞﲟﲠﲡﲢﲣﲤﲥﲦﲧﲨﲩﲪﲫﲬﲭﲮﲯﲰﲱﲲﲳﲴﲵﲶﲷﲸﲹﲺﲻﲼﲽﲾﲿﳀﳁﳂﳃﳄﳅﳆﳇﳈﳉﳊﳋﳌﳍﳎﳏﳐﳑﳒﳓﳔﳕﳖﳗﳘﳙﳚﳛﳜﳝﳞﳟﳠﳡﳢﳣﳤﳥﳦﳧﳨﳩﳪﳫﳬﳭﳮﳯﳰﳱﳲﳳﳴﳵﳶﳷﳸﳹﳺﳻﳼﳽﳾﳿ",
      "ﶀﶁﶂﶃﶄﶅﶆﶇﶈﶉﶊﶋﶌﶍﶎﶏ﶐﶑ﶒﶓﶔﶕﶖﶗﶘﶙﶚﶛﶜﶝﶞﶟﶠﶡﶢﶣﶤﶥﶦﶧﶨﶩﶪﶫﶬﶭﶮﶯﶰﶱﶲﶳﶴﶵﶶﶷﶸﶹﶺﶻﶼﶽﶾﶿﷀﷁﷂﷃﷄﷅﷆﷇ﷈﷉﷊﷋﷌﷍﷎﷏﷐﷑﷒﷓﷔﷕﷖﷗﷘﷙﷚﷛﷜﷝﷞﷟﷠﷡﷢﷣﷤﷥﷦﷧﷨﷩﷪﷫﷬﷭﷮﷯ﷰﷱﷲﷳﷴﷵﷶﷷﷸﷹﷺﷻ﷼﷽﷾﷿",
      "ﺀﺁﺂﺃﺄﺅﺆﺇﺈﺉﺊﺋﺌﺍﺎﺏﺐﺑﺒﺓﺔﺕﺖﺗﺘﺙﺚﺛﺜﺝﺞﺟﺠﺡﺢﺣﺤﺥﺦﺧﺨﺩﺪﺫﺬﺭﺮﺯﺰﺱﺲﺳﺴﺵﺶﺷﺸﺹﺺﺻﺼﺽﺾﺿﻀﻁﻂﻃﻄﻅﻆﻇﻈﻉﻊﻋﻌﻍﻎﻏﻐﻑﻒﻓﻔﻕﻖﻗﻘﻙﻚﻛﻜﻝﻞﻟﻠﻡﻢﻣﻤﻥﻦﻧﻨﻩﻪﻫﻬﻭﻮﻯﻰﻱﻲﻳﻴﻵﻶﻷﻸﻹﻺﻻﻼ﻽﻾﻿",
      "ﾀﾁﾂﾃﾄﾅﾆﾇﾈﾉﾊﾋﾌﾍﾎﾏﾐﾑﾒﾓﾔﾕﾖﾗﾘﾙﾚﾛﾜﾝﾞﾟﾠﾡﾢﾣﾤﾥﾦﾧﾨﾩﾪﾫﾬﾭﾮﾯﾰﾱﾲﾳﾴﾵﾶﾷﾸﾹﾺﾻﾼﾽﾾ﾿￀￁ￂￃￄￅￆￇ￈￉ￊￋￌￍￎￏ￐￑ￒￓￔￕￖￗ￘￙ￚￛￜ￝￞￟￠￡￢￣￤￥￦￧￨￩￪￫￬￭￮￯￰￱￲￳￴￵￶￷￸￹￺￻￼�￾￿">>

\* rows 217 .. 220: the characters whose high surrogate is the unit of the
\* row and whose low surrogate is U+DC80
HighPairs ==
    <<"𰂀𰒀𰢀𰲀𱂀𱒀𱢀𱲀𲂀𲒀𲢀𲲀𳂀𳒀𳢀𳲀𴂀𴒀𴢀𴲀𵂀𵒀𵢀𵲀𶂀𶒀𶢀𶲀𷂀𷒀𷢀𷲀𸂀𸒀𸢀𸲀𹂀𹒀𹢀𹲀𺂀𺒀𺢀𺲀𻂀𻒀𻢀𻲀𼂀𼒀𼢀𼲀𽂀𽒀𽢀𽲀𾂀𾒀𾢀𾲀𿂀𿒀𿢀𿲀񀂀񀒀񀢀񀲀񁂀񁒀񁢀񁲀񂂀񂒀񂢀񂲀񃂀񃒀񃢀񃲀񄂀񄒀񄢀񄲀񅂀񅒀񅢀񅲀񆂀񆒀񆢀񆲀񇂀񇒀񇢀񇲀񈂀񈒀񈢀񈲀񉂀񉒀񉢀񉲀񊂀񊒀񊢀񊲀񋂀񋒀񋢀񋲀񌂀񌒀񌢀񌲀񍂀񍒀񍢀񍲀񎂀񎒀񎢀񎲀񏂀񏒀񏢀񏲀",
      "񰂀񰒀񰢀񰲀񱂀񱒀񱢀񱲀񲂀񲒀񲢀񲲀񳂀񳒀񳢀񳲀񴂀񴒀񴢀񴲀񵂀񵒀񵢀񵲀񶂀񶒀񶢀񶲀񷂀񷒀񷢀񷲀񸂀񸒀񸢀񸲀񹂀񹒀񹢀񹲀񺂀񺒀񺢀񺲀񻂀񻒀񻢀񻲀񼂀񼒀񼢀񼲀񽂀񽒀񽢀񽲀񾂀񾒀񾢀񾲀񿂀񿒀񿢀񿲀򀂀򀒀򀢀򀲀򁂀򁒀򁢀򁲀򂂀򂒀򂢀򂲀򃂀򃒀򃢀򃲀򄂀򄒀򄢀򄲀򅂀򅒀򅢀򅲀򆂀򆒀򆢀򆲀򇂀򇒀򇢀򇲀򈂀򈒀򈢀򈲀򉂀򉒀򉢀򉲀򊂀򊒀򊢀򊲀򋂀򋒀򋢀򋲀򌂀򌒀򌢀򌲀򍂀򍒀򍢀򍲀򎂀򎒀򎢀򎲀򏂀򏒀򏢀򏲀",
      "򰂀򰒀򰢀򰲀򱂀򱒀򱢀򱲀򲂀򲒀򲢀򲲀򳂀򳒀򳢀򳲀򴂀򴒀򴢀򴲀򵂀򵒀򵢀򵲀򶂀򶒀򶢀򶲀򷂀򷒀򷢀򷲀򸂀򸒀򸢀򸲀򹂀򹒀򹢀򹲀򺂀򺒀򺢀򺲀򻂀򻒀򻢀򻲀򼂀򼒀򼢀򼲀򽂀򽒀򽢀򽲀򾂀򾒀򾢀򾲀򿂀򿒀򿢀򿲀󀂀󀒀󀢀󀲀󁂀󁒀󁢀󁲀󂂀󂒀󂢀󂲀󃂀󃒀󃢀󃲀󄂀󄒀󄢀󄲀󅂀󅒀󅢀󅲀󆂀󆒀󆢀󆲀󇂀󇒀󇢀󇲀󈂀󈒀󈢀󈲀󉂀󉒀󉢀󉲀󊂀󊒀󊢀󊲀󋂀󋒀󋢀󋲀󌂀󌒀󌢀󌲀󍂀󍒀󍢀󍲀󎂀󎒀󎢀󎲀󏂀󏒀󏢀󏲀",
      "󰂀󰒀󰢀󰲀󱂀󱒀󱢀󱲀󲂀󲒀󲢀󲲀󳂀󳒀󳢀󳲀󴂀󴒀󴢀󴲀󵂀󵒀󵢀󵲀󶂀󶒀󶢀󶲀󷂀󷒀󷢀󷲀󸂀󸒀󸢀󸲀󹂀󹒀󹢀󹲀󺂀󺒀󺢀󺲀󻂀󻒀󻢀󻲀󼂀󼒀󼢀󼲀󽂀󽒀󽢀󽲀󾂀󾒀󾢀󾲀󿂀󿒀󿢀󿲀􀂀􀒀􀢀􀲀􁂀􁒀􁢀􁲀􂂀􂒀􂢀􂲀􃂀􃒀􃢀􃲀􄂀􄒀􄢀􄲀􅂀􅒀􅢀􅲀􆂀􆒀􆢀􆲀􇂀􇒀􇢀􇲀􈂀􈒀􈢀􈲀􉂀􉒀􉢀􉲀􊂀􊒀􊢀􊲀􋂀􋒀􋢀􋲀􌂀􌒀􌢀􌲀􍂀􍒀􍢀􍲀􎂀􎒀􎢀􎲀􏂀􏒀􏢀􏲀">>

\* rows 221 .. 224: the characters whose low surrogate is the unit of the
\* row and whose high surrogate is U+D880
LowPairs ==
    <<"𰂀𰂁𰂂𰂃𰂄𰂅𰂆𰂇𰂈𰂉𰂊𰂋𰂌𰂍𰂎𰂏𰂐𰂑𰂒𰂓𰂔𰂕𰂖𰂗𰂘𰂙𰂚𰂛𰂜𰂝𰂞𰂟𰂠𰂡𰂢𰂣𰂤𰂥𰂦𰂧𰂨𰂩𰂪𰂫𰂬𰂭𰂮𰂯𰂰𰂱𰂲𰂳𰂴𰂵𰂶𰂷𰂸𰂹𰂺𰂻𰂼𰂽𰂾𰂿𰃀𰃁𰃂𰃃𰃄𰃅𰃆𰃇𰃈𰃉𰃊𰃋𰃌𰃍𰃎𰃏𰃐𰃑𰃒𰃓𰃔𰃕𰃖𰃗𰃘𰃙𰃚𰃛𰃜𰃝𰃞𰃟𰃠𰃡𰃢𰃣𰃤𰃥𰃦𰃧𰃨𰃩𰃪𰃫𰃬𰃭𰃮𰃯𰃰𰃱𰃲𰃳𰃴𰃵𰃶𰃷𰃸𰃹𰃺𰃻𰃼𰃽𰃾𰃿",
      "𰆀𰆁𰆂𰆃𰆄𰆅𰆆𰆇𰆈𰆉𰆊𰆋𰆌𰆍𰆎𰆏𰆐𰆑𰆒𰆓𰆔𰆕𰆖𰆗𰆘𰆙𰆚𰆛𰆜𰆝𰆞𰆟𰆠𰆡𰆢𰆣𰆤𰆥𰆦𰆧𰆨𰆩𰆪𰆫𰆬𰆭𰆮𰆯𰆰𰆱𰆲𰆳𰆴𰆵𰆶𰆷𰆸𰆹𰆺𰆻𰆼𰆽𰆾𰆿𰇀𰇁𰇂𰇃𰇄𰇅𰇆𰇇𰇈𰇉𰇊𰇋𰇌𰇍𰇎𰇏𰇐𰇑𰇒𰇓𰇔𰇕𰇖𰇗𰇘𰇙𰇚𰇛𰇜𰇝𰇞𰇟𰇠𰇡𰇢𰇣𰇤𰇥𰇦𰇧𰇨𰇩𰇪𰇫𰇬𰇭𰇮𰇯𰇰𰇱𰇲𰇳𰇴𰇵𰇶𰇷𰇸𰇹𰇺𰇻𰇼𰇽𰇾𰇿",
      "𰊀𰊁𰊂𰊃𰊄𰊅𰊆𰊇𰊈𰊉𰊊𰊋𰊌𰊍𰊎𰊏𰊐𰊑𰊒𰊓𰊔𰊕𰊖𰊗𰊘𰊙𰊚𰊛𰊜𰊝𰊞𰊟𰊠𰊡𰊢𰊣𰊤𰊥𰊦𰊧𰊨𰊩𰊪𰊫𰊬𰊭𰊮𰊯𰊰𰊱𰊲𰊳𰊴𰊵𰊶𰊷𰊸𰊹𰊺𰊻𰊼𰊽𰊾𰊿𰋀𰋁𰋂𰋃𰋄𰋅𰋆𰋇𰋈𰋉𰋊𰋋𰋌𰋍𰋎𰋏𰋐𰋑𰋒𰋓𰋔𰋕𰋖𰋗𰋘𰋙𰋚𰋛𰋜𰋝𰋞𰋟𰋠𰋡𰋢𰋣𰋤𰋥𰋦𰋧𰋨𰋩𰋪𰋫𰋬𰋭𰋮𰋯𰋰𰋱𰋲𰋳𰋴𰋵𰋶𰋷𰋸𰋹𰋺𰋻𰋼𰋽𰋾𰋿",
      "𰎀𰎁𰎂𰎃𰎄𰎅𰎆𰎇𰎈𰎉𰎊𰎋𰎌𰎍𰎎𰎏𰎐𰎑𰎒𰎓𰎔𰎕𰎖𰎗𰎘𰎙𰎚𰎛𰎜𰎝𰎞𰎟𰎠𰎡𰎢𰎣𰎤𰎥𰎦𰎧𰎨𰎩𰎪𰎫𰎬𰎭𰎮𰎯𰎰𰎱𰎲𰎳𰎴𰎵𰎶𰎷𰎸𰎹𰎺𰎻𰎼𰎽𰎾𰎿𰏀𰏁𰏂𰏃𰏄𰏅𰏆𰏇𰏈𰏉𰏊𰏋𰏌𰏍𰏎𰏏𰏐𰏑𰏒𰏓𰏔𰏕𰏖𰏗𰏘𰏙𰏚𰏛𰏜𰏝𰏞𰏟𰏠𰏡𰏢𰏣𰏤𰏥𰏦𰏧𰏨𰏩𰏪𰏫𰏬𰏭𰏮𰏯𰏰𰏱𰏲𰏳𰏴𰏵𰏶𰏷𰏸𰏹𰏺𰏻𰏼𰏽𰏾𰏿">>

\* the units 256(h - 1) + 128 .. 256(h - 1) + 255 of row h, in order
row_units(h) ==
    IF h \in 217..220
    THEN [i \in 1..128 |-> SubSeq(HighPairs[h - 216], 2 * i - 1, 2 * i - 1)]
    ELSE IF h \in 221..224
    THEN [i \in 1..128 |-> SubSeq(LowPairs[h - 220], 2 * i, 2 * i)]
    ELSE [i \in 1..128 |-> SubSeq(BmpRows[h], i, i)]

UnitRows == SubSeq([h \in 1..256 |-> SubSeq(row_units(h), 1, 128)], 1, 256)

RowSets ==
    SubSeq([h \in 1..256 |-> {UnitRows[h][i] : i \in 1..128}], 1, 256)

UnitsOf(hs) == UNION {RowSets[h] : h \in hs}

NonAscii == UnitsOf(1..256)                     \* U+0080 .. U+FFFF
Bytes2 == UnitsOf(1..8)                         \* U+0080 .. U+07FF
Bytes3 == UnitsOf((9..216) \cup (225..256))     \* U+0800 .. U+FFFF, no surrogate
High == UnitsOf(217..220)                       \* U+D800 .. U+DBFF
Low == UnitsOf(221..224)                        \* U+DC00 .. U+DFFF

\* the i-th unit of str
unit(str, i) == SubSeq(str, i, i)

\* the units a to b of str, none where b < a
units(str, a, b) == IF b < a THEN "" ELSE SubSeq(str, a, b)

\* the number a unit of the tables stands for
unit_value(c) ==
    LET h == CHOOSE r \in 1..256 : c \in RowSets[r]
        i == CHOOSE k \in 1..128 : UnitRows[h][k] = c
    IN  256 * (h - 1) + 127 + i

\* the bytes of str over one for each unit; multi: the positions of its
\* units from U+0080 on
extra_bytes(str, multi) ==
    Cardinality({i \in multi : unit(str, i) \in Bytes2})
    + 2 * Cardinality({i \in multi : unit(str, i) \in Bytes3})
    + 3 * Cardinality({i \in multi : unit(str, i) \in High})
    - Cardinality({i \in multi : /\ unit(str, i) \in Low
                                 /\ i > 1
                                 /\ unit(str, i - 1) \in High})

\* strlen: the bytes of the string
strlen(str) ==
    Len(str)
    + extra_bytes(str, {i \in 1..Len(str) : unit(str, i) \in NonAscii})

\* the number of leading units of str whose characters lie whole in its
\* first n bytes
whole_units(str, n) ==
    IF strlen(str) <= n THEN Len(str)
    ELSE IF strlen(str) = Len(str) THEN n
    ELSE CHOOSE k \in 0..(Len(str) - 1) :
             /\ strlen(units(str, 1, k)) <= n
             /\ strlen(units(str, 1, k + 1)) > n

\* the code point of the character of two bytes or more that starts at
\* unit i of str
code_point(str, i) ==
    IF unit(str, i) \in High
    THEN 65536 + 1024 * (unit_value(unit(str, i)) - 55296)
         + (unit_value(unit(str, i + 1)) - 56320)
    ELSE unit_value(unit(str, i))

\* the bytes of the character cp, from U+0080 on
utf8(cp) ==
    IF cp < 2048 THEN <<192 + cp \div 64, 128 + (cp % 64)>>
    ELSE IF cp < 65536
    THEN <<224 + cp \div 4096, 128 + ((cp \div 64) % 64), 128 + (cp % 64)>>
    ELSE <<240 + cp \div 262144, 128 + ((cp \div 4096) % 64),
           128 + ((cp \div 64) % 64), 128 + (cp % 64)>>

\* the byte b (128 .. 255) where it is no part of a whole character
Orphan(b) == UnitRows[221][b - 127]

\* bytes that are part of a character and not one
RECURSIVE Orphans(_)
Orphans(bytes) ==
    IF bytes = <<>> THEN ""
    ELSE Orphan(Head(bytes)) \o Orphans(Tail(bytes))

\* the first n bytes of str
first_bytes(str, n) ==
    LET k == whole_units(str, n)
        head == units(str, 1, k)
        cut == n - strlen(head)
    IN  IF strlen(str) <= n THEN str
        ELSE IF cut = 0 THEN head
        ELSE head \o Orphans(SubSeq(utf8(code_point(str, k + 1)), 1, cut))

\* the bytes of str after its first n
bytes_after(str, n) ==
    LET k == whole_units(str, n)
        cut == n - strlen(units(str, 1, k))
        bytes == utf8(code_point(str, k + 1))
    IN  IF strlen(str) <= n THEN ""
        ELSE IF cut = 0 THEN units(str, k + 1, Len(str))
        ELSE Orphans(SubSeq(bytes, cut + 1, Len(bytes)))
             \o units(str, k + (IF unit(str, k + 1) \in High THEN 3 ELSE 2),
                      Len(str))

\* strncpy(dst, src, n - 1); dst[n - 1] = '\0'  : the stored string
strncpy(src, n) == first_bytes(src, n - 1)

RECURSIVE find_from(_, _, _)
find_from(names, name, i) ==
    IF i > Len(names) THEN -1
    ELSE IF names[i] = name THEN i - 1
    ELSE find_from(names, name, i + 1)

FileNames(d) == [i \in 1..Len(d.files) |-> d.files[i].name]
SubdirNames(ds, d) == [i \in 1..Len(d.subdirs) |-> ds[d.subdirs[i]].name]

\* index (from 0) of the first file of d stored under name, or -1
find_file_index(d, name) == find_from(FileNames(d), name, 1)

\* index (from 0) of the first sub-directory of d stored under name, or -1
find_subdir_index(ds, d, name) == find_from(SubdirNames(ds, d), name, 1)

\* malloc(sizeof(struct Dir)) returns NULL
malloc_fails(h) == h # <<>> /\ ~Head(h)

\* the results still to come once one malloc call has returned
after_malloc(h) == IF h = <<>> THEN h ELSE Tail(h)

\* create_dir_node without the assignment d->parent = parent
create_dir_node_no_parent(name, parent) ==
    [name |-> strncpy(name, NAME_LEN), parent |-> NULL,
     files |-> <<>>, subdirs |-> <<>>]

\* the node malloc'ed and filled in by create_dir_node / create_dir
create_dir_node(name, parent) ==
    [name |-> strncpy(name, NAME_LEN), parent |-> parent,
     files |-> <<>>, subdirs |-> <<>>]

\* the new struct File with perm left as the slot happened to hold it
NewFile_no_perm(name) ==
    [name |-> strncpy(name, NAME_LEN), size |-> 0,
     perm |-> "", content |-> ""]

NewFile(name) ==
    [name |-> strncpy(name, NAME_LEN), size |-> 0,
     perm |-> strncpy("rw-", PERM_LEN), content |-> ""]

\* what a command handler hands back to main
Result(ds, c, oc, o) == [dirs |-> ds, cwd |-> c, outcome |-> oc, out |-> o]

\* files[idx .. count-2] = files[idx+1 .. count-1]; count--   (idx from 0)
remove_at(files, idx) ==
    SubSeq(files, 1, idx) \o SubSeq(files, idx + 2, Len(files))

(***************************************************************************)
(* pwd: the ancestor walk and the rendering loop                           *)
(***************************************************************************)

\* the walk with the test p->parent != NULL: it stops before the root
RECURSIVE collect_parts_stop_at_root(_, _, _, _)
collect_parts_stop_at_root(ds, p, parts, limit) ==
    IF p = NULL \/ ds[p].parent = NULL
       \/ (Len(parts) >= limit /\ limit >= 0) THEN parts
    ELSE collect_parts_stop_at_root(ds, ds[p].parent,
                                    Append(parts, ds[p].name), limit)

\* while (p != NULL && depth < MAX_DEPTH) { parts[depth++] = p->name; ... }
\* limit < 0 stands for the loop without the depth test (linux-commands.c)
RECURSIVE collect_parts(_, _, _, _)
collect_parts(ds, p, parts, limit) ==
    IF p = NULL \/ (Len(parts) >= limit /\ limit >= 0) THEN parts
    ELSE collect_parts(ds, ds[p].parent, Append(parts, ds[p].name), limit)

\* for (i = depth - 1; i >= 0; i--) ...   (parts[i] of the code is parts[i+1])
RECURSIVE render_parts(_, _)
render_parts(parts, i) ==
    IF i < 0 THEN ""
    ELSE (IF i = 0 /\ parts[i + 1] = "/" THEN "/"
          ELSE parts[i + 1] \o (IF i > 0 THEN "/" ELSE ""))
         \o render_parts(parts, i - 1)

pwd_cmd_L2(ds, c) ==
    IF ds[c].parent = NULL THEN Result(ds, c, "Ok", <<"/">>)
    ELSE LET parts == collect_parts(ds, c, <<>>, MAX_DEPTH)
         IN  Result(ds, c, "Ok", <<render_parts(parts, Len(parts) - 1)>>)

\* the walk has no depth test: from the 65th node of the chain on it stores
\* past the end of parts[64], after which the behaviour is undefined.  The
\* result here is what the function does when the stores hit nothing that
\* is read again; after_command and printed give the other outcomes
pwd_cmd_LC(ds, c) ==
    IF ds[c].parent = NULL THEN Result(ds, c, "Ok", <<"/">>)
    ELSE LET parts == collect_parts(ds, c, <<>>, -1)
         IN  IF Len(parts) > PARTS_LEN
             THEN Result(ds, c, "BufferOverflow",
                         <<render_parts(parts, Len(parts) - 1)>>)
             ELSE Result(ds, c, "Ok", <<render_parts(parts, Len(parts) - 1)>>)

(***************************************************************************)
(* ls                                                                      *)
(***************************************************************************)
\* printf("%4d", n): the decimal digits (and sign) of n, padded with blanks
\* on the left to a width of 4
fmt_4d(n) ==
    LET str == ToString(n)
    IN  (IF Len(str) >= 4 THEN "" ELSE SubSeq("    ", 1, 4 - Len(str))) \o str

\* the two printing loops; dirfmt is the variant's long-format prefix
ls_lines(ds, d, longfmt, dirfmt) ==
    [i \in 1..Len(d.subdirs) |->
        (IF longfmt THEN dirfmt ELSE "") \o ds[d.subdirs[i]].name \o "/"]
    \o
    [i \in 1..Len(d.files) |->
        (IF longfmt
         THEN "-" \o d.files[i].perm \o " " \o fmt_4d(d.files[i].size) \o " "
         ELSE "")
        \o d.files[i].name]

ls_cmd_L2(ds, c, opt) ==
    IF Len(ds[c].subdirs) = 0 /\ Len(ds[c].files) = 0
    THEN Result(ds, c, "Ok", <<"ls: no entries">>)
    ELSE Result(ds, c, "Ok", ls_lines(ds, ds[c], opt = "-l", "drwx    - "))

ls_cmd_LC(ds, c, opt) ==
    Result(ds, c, "Ok", ls_lines(ds, ds[c], opt = "-l", "drwx ---- "))

(***************************************************************************)
(* touch                                                                   *)
(***************************************************************************)
\* touch_cmd taking the slot files[file_count++] before the directory test
touch_cmd_slot_first(ds, c, name) ==
    IF name = NULL_ARG THEN Result(ds, c, "UsageError", <<>>)
    ELSE IF find_file_index(ds[c], name) # -1
         THEN Result(ds, c, "NameCollision", <<>>)
    ELSE IF Len(ds[c].files) >= MAX_FILES
         THEN Result(ds, c, "CapacityExceeded", <<>>)
    ELSE IF find_subdir_index(ds, ds[c], name) # -1
         THEN Result([ds EXCEPT ![c].files = Append(@, NewFile(name))],
                     c, "NameCollision", <<>>)
    ELSE Result([ds EXCEPT ![c].files = Append(@, NewFile(name))],
                c, "Ok", <<>>)

touch_cmd_L2(ds, c, name) ==
    IF name = NULL_ARG THEN Result(ds, c, "UsageError", <<>>)
    ELSE IF find_file_index(ds[c], name) # -1
         THEN Result(ds, c, "NameCollision", <<>>)
    ELSE IF Len(ds[c].files) >= MAX_FILES
         THEN Result(ds, c, "CapacityExceeded", <<>>)
    ELSE IF find_subdir_index(ds, ds[c], name) # -1
         THEN Result(ds, c, "NameCollision", <<>>)
    ELSE Result([ds EXCEPT ![c].files = Append(@, NewFile(name))],
                c, "Ok", <<>>)

\* touch_cmd testing file_count > MAX_FILES where the code has >=
touch_cmd_off_by_one(ds, c, name) ==
    IF name = NULL_ARG THEN Result(ds, c, "UsageError", <<>>)
    ELSE IF \/ find_file_index(ds[c], name) # -1
            \/ find_subdir_index(ds, ds[c], name) # -1
         THEN Result(ds, c, "NameCollision", <<>>)
    ELSE IF Len(ds[c].files) > MAX_FILES
         THEN Result(ds, c, "CapacityExceeded", <<>>)
    ELSE Result([ds EXCEPT ![c].files = Append(@, NewFile(name))],
                c, "Ok", <<>>)

touch_cmd_LC(ds, c, name) ==
    IF name = NULL_ARG THEN Result(ds, c, "UsageError", <<>>)
    ELSE IF \/ find_file_index(ds[c], name) # -1
            \/ find_subdir_index(ds, ds[c], name) # -1
         THEN Result(ds, c, "NameCollision", <<>>)
    ELSE IF Len(ds[c].files) >= MAX_FILES
         THEN Result(ds, c, "CapacityExceeded", <<>>)
    ELSE Result([ds EXCEPT ![c].files = Append(@, NewFile(name))],
                c, "Ok", <<>>)

(***************************************************************************)
(* rm                                                                      *)
(***************************************************************************)
\* rm_cmd without the shift loop: only file_count-- (the last entry goes)
rm_cmd_no_shift(ds, c, name) ==
    IF name = NULL_ARG THEN Result(ds, c, "UsageError", <<>>)
    ELSE LET idx == find_file_index(ds[c], name)
         IN  IF idx >= 0
             THEN Result([ds EXCEPT ![c].files =
                              SubSeq(@, 1, Len(@) - 1)],
                         c, "Ok", <<>>)
             ELSE Result(ds, c, "NotFound", <<>>)

rm_cmd_L2(ds, c, name) ==
    IF name = NULL_ARG THEN Result(ds, c, "UsageError", <<>>)
    ELSE LET idx == find_file_index(ds[c], name)
         IN  IF idx >= 0
             THEN Result([ds EXCEPT ![c].files = remove_at(@, idx)],
                         c, "Ok", <<>>)
             ELSE Result(ds, c, "NotFound", <<>>)

\* rm_cmd that, finding no file, goes on to drop a sub-directory of that name
rm_cmd_dirs_too(ds, c, name) ==
    IF name = NULL_ARG THEN Result(ds, c, "UsageError", <<>>)
    ELSE LET idx == find_file_index(ds[c], name)
             sub == find_subdir_index(ds, ds[c], name)
         IN  IF idx >= 0
             THEN Result([ds EXCEPT ![c].files = remove_at(@, idx)],
                         c, "Ok", <<>>)
             ELSE IF sub >= 0
             THEN Result([ds EXCEPT ![c].subdirs = remove_at(@, sub)],
                         c, "Ok", <<>>)
             ELSE Result(ds, c, "NotFound", <<>>)

rm_cmd_LC(ds, c, name) ==
    IF name = NULL_ARG THEN Result(ds, c, "UsageError", <<>>)
    ELSE LET idx == find_file_index(ds[c], name)
         IN  IF idx < 0
             THEN Result(ds, c, "NotFound", <<>>)
             ELSE Result([ds EXCEPT ![c].files = remove_at(@, idx)],
                         c, "Ok", <<>>)

(***************************************************************************)
(* mv                                                                      *)
(***************************************************************************)
\* mv_cmd without the test of dst against the sub-directory names
mv_cmd_no_dir_test(ds, c, src, dst) ==
    IF src = NULL_ARG \/ dst = NULL_ARG THEN Result(ds, c, "UsageError", <<>>)
    ELSE LET idx == find_file_index(ds[c], src)
         IN  IF idx < 0 THEN Result(ds, c, "NotFound", <<>>)
             ELSE IF find_file_index(ds[c], dst) # -1
                  THEN Result(ds, c, "NameCollision", <<>>)
             ELSE Result([ds EXCEPT ![c].files[idx + 1].name =
                                        strncpy(dst, NAME_LEN)],
                         c, "Ok", <<>>)

\* mv_cmd that removes the entry and creates it anew at the end
mv_cmd_recreate(ds, c, src, dst) ==
    IF src = NULL_ARG \/ dst = NULL_ARG THEN Result(ds, c, "UsageError", <<>>)
    ELSE LET idx == find_file_index(ds[c], src)
         IN  IF idx < 0 THEN Result(ds, c, "NotFound", <<>>)
             ELSE IF find_file_index(ds[c], dst) # -1
                  THEN Result(ds, c, "NameCollision", <<>>)
             ELSE IF find_subdir_index(ds, ds[c], dst) # -1
                  THEN Result(ds, c, "NameCollision", <<>>)
             ELSE Result([ds EXCEPT ![c].files =
                              Append(remove_at(@, idx), NewFile(dst))],
                         c, "Ok", <<>>)

mv_cmd_L2(ds, c, src, dst) ==
    IF src = NULL_ARG \/ dst = NULL_ARG THEN Result(ds, c, "UsageError", <<>>)
    ELSE LET idx == find_file_index(ds[c], src)
         IN  IF idx < 0 THEN Result(ds, c, "NotFound", <<>>)
             ELSE IF find_file_index(ds[c], dst) # -1
                  THEN Result(ds, c, "NameCollision", <<>>)
             ELSE IF find_subdir_index(ds, ds[c], dst) # -1
                  THEN Result(ds, c, "NameCollision", <<>>)
             ELSE Result([ds EXCEPT ![c].files[idx + 1].name =
                                        strncpy(dst, NAME_LEN)],
                         c, "Ok", <<>>)

mv_cmd_LC(ds, c, src, dst) ==
    IF src = NULL_ARG \/ dst = NULL_ARG THEN Result(ds, c, "UsageError", <<>>)
    ELSE LET idx == find_file_index(ds[c], src)
         IN  IF idx < 0 THEN Result(ds, c, "NotFound", <<>>)
             ELSE IF \/ find_file_index(ds[c], dst) # -1
                     \/ find_subdir_index(ds, ds[c], dst) # -1
                  THEN Result(ds, c, "NameCollision", <<>>)
             ELSE Result([ds EXCEPT ![c].files[idx + 1].name =
                                        strncpy(dst, NAME_LEN)],
                         c, "Ok", <<>>)

(***************************************************************************)
(* mkdir: the new node gets the next free handle                           *)
(***************************************************************************)
\* mkdir_cmd with the two tests in the other order: names first
mkdir_cmd_names_first(ds, c, name) ==
    IF name = NULL_ARG THEN Result(ds, c, "UsageError", <<>>)
    ELSE IF \/ find_subdir_index(ds, ds[c], name) # -1
            \/ find_file_index(ds[c], name) # -1
         THEN Result(ds, c, "NameCollision", <<>>)
    ELSE IF Len(ds[c].subdirs) >= MAX_SUBDIRS
         THEN Result(ds, c, "CapacityExceeded", <<>>)
    ELSE IF malloc_fails(heap) THEN Result(ds, c, "MemoryError", <<>>)
    ELSE LET d == Len(ds) + 1
         IN  Result([Append(ds, create_dir_node(name, c))
                        EXCEPT ![c].subdirs = Append(@, d)],
                    c, "Ok", <<>>)

\* mkdir_cmd counting the new entry before it tests what malloc returned
mkdir_cmd_count_first(ds, c, name) ==
    IF name = NULL_ARG THEN Result(ds, c, "UsageError", <<>>)
    ELSE IF Len(ds[c].subdirs) >= MAX_SUBDIRS
         THEN Result(ds, c, "CapacityExceeded", <<>>)
    ELSE IF \/ find_subdir_index(ds, ds[c], name) # -1
            \/ find_file_index(ds[c], name) # -1
         THEN Result(ds, c, "NameCollision", <<>>)
    ELSE IF malloc_fails(heap)
         THEN Result([ds EXCEPT ![c].subdirs = Append(@, NULL)],
                     c, "MemoryError", <<>>)
    ELSE LET d == Len(ds) + 1
         IN  Result([Append(ds, create_dir_node(name, c))
                        EXCEPT ![c].subdirs = Append(@, d)],
                    c, "Ok", <<>>)

mkdir_cmd_L2(ds, c, name) ==
    IF name = NULL_ARG THEN Result(ds, c, "UsageError", <<>>)
    ELSE IF Len(ds[c].subdirs) >= MAX_SUBDIRS
         THEN Result(ds, c, "CapacityExceeded", <<>>)
    ELSE IF \/ find_subdir_index(ds, ds[c], name) # -1
            \/ find_file_index(ds[c], name) # -1
         THEN Result(ds, c, "NameCollision", <<>>)
    ELSE IF malloc_fails(heap) THEN Result(ds, c, "MemoryError", <<>>)
    ELSE LET d == Len(ds) + 1
         IN  Result([Append(ds, create_dir_node(name, c))
                        EXCEPT ![c].subdirs = Append(@, d)],
                    c, "Ok", <<>>)

\* mkdir_cmd calling create_dir(name, cwd->parent)
mkdir_cmd_parent_of_cwd(ds, c, name) ==
    IF name = NULL_ARG THEN Result(ds, c, "UsageError", <<>>)
    ELSE IF Len(ds[c].subdirs) >= MAX_SUBDIRS
         THEN Result(ds, c, "CapacityExceeded", <<>>)
    ELSE IF \/ find_file_index(ds[c], name) # -1
            \/ find_subdir_index(ds, ds[c], name) # -1
         THEN Result(ds, c, "NameCollision", <<>>)
    ELSE IF malloc_fails(heap) THEN Result(ds, c, "MemoryError", <<>>)
    ELSE LET d == Len(ds) + 1
         IN  Result([Append(ds, create_dir_node(name, ds[c].parent))
                        EXCEPT ![c].subdirs = Append(@, d)],
                    c, "Ok", <<>>)

mkdir_cmd_LC(ds, c, name) ==
    IF name = NULL_ARG THEN Result(ds, c, "UsageError", <<>>)
    ELSE IF Len(ds[c].subdirs) >= MAX_SUBDIRS
         THEN Result(ds, c, "CapacityExceeded", <<>>)
    ELSE IF \/ find_file_index(ds[c], name) # -1
            \/ find_subdir_index(ds, ds[c], name) # -1
         THEN Result(ds, c, "NameCollision", <<>>)
    ELSE IF malloc_fails(heap) THEN Result(ds, c, "MemoryError", <<>>)
    ELSE LET d == Len(ds) + 1
         IN  Result([Append(ds, create_dir_node(name, c))
                        EXCEPT ![c].subdirs = Append(@, d)],
                    c, "Ok", <<>>)

(***************************************************************************)
(* chmod (L2.c only)                                                       *)
(***************************************************************************)
\* chmod_cmd copying the whole mode (strcpy), not at most 7 bytes of it
chmod_cmd_no_cut(ds, c, pmode, filename) ==
    IF pmode = NULL_ARG \/ filename = NULL_ARG
    THEN Result(ds, c, "UsageError", <<>>)
    ELSE LET idx == find_file_index(ds[c], filename)
         IN  IF idx < 0 THEN Result(ds, c, "NotFound", <<>>)
             ELSE Result([ds EXCEPT ![c].files[idx + 1].perm = pmode],
                         c, "Ok", <<>>)

chmod_cmd_L2(ds, c, pmode, filename) ==
    IF pmode = NULL_ARG \/ filename = NULL_ARG
    THEN Result(ds, c, "UsageError", <<>>)
    ELSE LET idx == find_file_index(ds[c], filename)
         IN  IF idx < 0 THEN Result(ds, c, "NotFound", <<>>)
             ELSE Result([ds EXCEPT ![c].files[idx + 1].perm =
                                        strncpy(pmode, PERM_LEN)],
                         c, "Ok", <<>>)

(***************************************************************************)
(* cd: the handle main assigns to cwd                                      *)
(***************************************************************************)
\* cd_cmd without the test of cwd->parent before going up
cd_cmd_unchecked_parent(ds, c, arg, r) ==
    IF arg = NULL_ARG THEN Result(ds, c, "UsageError", <<>>)
    ELSE IF arg = "/" THEN Result(ds, r, "Ok", <<>>)
    ELSE IF arg = ".." THEN Result(ds, ds[c].parent, "Ok", <<>>)
    ELSE IF arg = "." THEN Result(ds, c, "Ok", <<>>)
    ELSE LET idx == find_subdir_index(ds, ds[c], arg)
         IN  IF idx >= 0 THEN Result(ds, ds[c].subdirs[idx + 1], "Ok", <<>>)
             ELSE Result(ds, c, "NotFound", <<>>)

\* cd_cmd going back to the root when the name is not found
cd_cmd_notfound_to_root(ds, c, arg, r) ==
    IF arg = NULL_ARG THEN Result(ds, c, "UsageError", <<>>)
    ELSE IF arg = "/" THEN Result(ds, r, "Ok", <<>>)
    ELSE IF arg = ".."
         THEN (IF ds[c].parent # NULL THEN Result(ds, ds[c].parent, "Ok", <<>>)
               ELSE Result(ds, c, "Ok", <<>>))
    ELSE IF arg = "." THEN Result(ds, c, "Ok", <<>>)
    ELSE LET idx == find_subdir_index(ds, ds[c], arg)
         IN  IF idx >= 0 THEN Result(ds, ds[c].subdirs[idx + 1], "Ok", <<>>)
             ELSE Result(ds, r, "NotFound", <<>>)

\* cd_cmd looking the name up among the sub-directories of root
cd_cmd_lookup_in_root(ds, c, arg, r) ==
    IF arg = NULL_ARG THEN Result(ds, c, "UsageError", <<>>)
    ELSE IF arg = "/" THEN Result(ds, r, "Ok", <<>>)
    ELSE IF arg = ".."
         THEN (IF ds[c].parent # NULL THEN Result(ds, ds[c].parent, "Ok", <<>>)
               ELSE Result(ds, c, "Ok", <<>>))
    ELSE IF arg = "." THEN Result(ds, c, "Ok", <<>>)
    ELSE LET idx == find_subdir_index(ds, ds[r], arg)
         IN  IF idx >= 0 THEN Result(ds, ds[r].subdirs[idx + 1], "Ok", <<>>)
             ELSE Result(ds, c, "NotFound", <<>>)

cd_cmd_L2(ds, c, arg, r) ==
    IF arg = NULL_ARG THEN Result(ds, c, "UsageError", <<>>)
    ELSE IF arg = "/" THEN Result(ds, r, "Ok", <<>>)
    ELSE IF arg = ".."
         THEN (IF ds[c].parent # NULL THEN Result(ds, ds[c].parent, "Ok", <<>>)
               ELSE Result(ds, c, "Ok", <<>>))
    ELSE IF arg = "." THEN Result(ds, c, "Ok", <<>>)
    ELSE LET idx == find_subdir_index(ds, ds[c], arg)
         IN  IF idx >= 0 THEN Result(ds, ds[c].subdirs[idx + 1], "Ok", <<>>)
             ELSE Result(ds, c, "NotFound", <<>>)

\* cd_cmd testing "." with strncmp(arg, ".", 1): ".." is taken for "."
cd_cmd_dot_prefix(ds, c, arg, r) ==
    IF arg = NULL_ARG THEN Result(ds, c, "UsageError", <<>>)
    ELSE IF arg = "/" THEN Result(ds, r, "Ok", <<>>)
    ELSE IF SubSeq(arg, 1, 1) = "." THEN Result(ds, c, "Ok", <<>>)
    ELSE IF arg = ".."
         THEN Result(ds, IF ds[c].parent # NULL THEN ds[c].parent ELSE c,
                     "Ok", <<>>)
    ELSE LET idx == find_subdir_index(ds, ds[c], arg)
         IN  IF idx >= 0 THEN Result(ds, ds[c].subdirs[idx + 1], "Ok", <<>>)
             ELSE Result(ds, c, "NotFound", <<>>)

cd_cmd_LC(ds, c, arg, r) ==
    IF arg = NULL_ARG THEN Result(ds, c, "UsageError", <<>>)
    ELSE IF arg = "/" THEN Result(ds, r, "Ok", <<>>)
    ELSE IF arg = "." THEN Result(ds, c, "Ok", <<>>)
    ELSE IF arg = ".."
         THEN Result(ds, IF ds[c].parent # NULL THEN ds[c].parent ELSE c,
                     "Ok", <<>>)
    ELSE LET idx == find_subdir_index(ds, ds[c], arg)
         IN  IF idx >= 0 THEN Result(ds, ds[c].subdirs[idx + 1], "Ok", <<>>)
             ELSE Result(ds, c, "NotFound", <<>>)

(***************************************************************************)
(* main: the if / else-if chain that dispatches one tokenised line         *)
(***************************************************************************)
\* the separators of strtok: " \t" in L2.c, " " in linux-commands.c
Delims(v) == IF v = "L2" THEN {" ", "\t"} ELSE {" "}

\* the first position from i on whose byte is (is_delim) or is not a
\* separator, Len(raw) + 1 when there is none
scan(raw, delims, i, is_delim) ==
    LET hits == {j \in i..Len(raw) : (SubSeq(raw, j, j) \in delims) = is_delim}
    IN  IF hits = {} THEN Len(raw) + 1
        ELSE CHOOSE j \in hits : \A k \in hits : j <= k

\* the tokens that successive strtok calls return on the line raw: each call
\* skips the separators from i on and returns the bytes up to the next one
RECURSIVE strtok(_, _, _, _)
strtok(raw, delims, i, toks) ==
    LET first == scan(raw, delims, i, FALSE)
        last == scan(raw, delims, first, TRUE) - 1
    IN  IF first > Len(raw) THEN toks
        ELSE strtok(raw, delims, last + 2,
                    Append(toks, SubSeq(raw, first, last)))

\* the k-th token, or the NULL that strtok returns when there is none
Token(toks, k) == IF Len(toks) >= k THEN toks[k] ELSE NULL_ARG

\* a line as main sees it: its bytes (the newline trimmed) and the pointers
\* cmd, arg and the second argument of mv and chmod
read_line(v, raw) ==
    LET toks == strtok(raw, Delims(v), 1, <<>>)
    IN  [raw |-> raw, op |-> Token(toks, 1), a1 |-> Token(toks, 2),
         a2 |-> Token(toks, 3)]

\* the line made of the given tokens with one blank between them, which
\* both variants split into these tokens
Line(op, a1, a2) ==
    [raw |-> op \o (IF a1 = NULL_ARG THEN ""
                    ELSE " " \o a1 \o (IF a2 = NULL_ARG THEN ""
                                       ELSE " " \o a2)),
     op |-> op, a1 |-> a1, a2 |-> a2]

\* the two input lines L2.c answers with show_commands_jp
CommandListJp == "コマンドリスト"
CommandListJp2 == "コマンド リスト"

\* the handler called for line l reads a field of *cwd: every handler does
\* once its argument tests have passed, except cd to "/" and to "."
reads_cwd(l) ==
    CASE l.op \in {"touch", "rm", "mkdir"} -> l.a1 # NULL_ARG
      [] l.op \in {"mv", "chmod"} -> l.a1 # NULL_ARG /\ l.a2 # NULL_ARG
      [] l.op = "cd" -> l.a1 \notin {NULL_ARG, "/", "."}
      [] l.op \in {"ls", "pwd", "pwt"} -> TRUE
      [] OTHER -> FALSE

\* main calling chmod_cmd(root, mode, filename)
main_L2_chmod_on_root(ds, c, r, l) ==
    IF l.raw = "" THEN Result(ds, c, "NoCommand", <<>>)
    ELSE IF l.raw = CommandListJp \/ l.raw = CommandListJp2
         THEN Result(ds, c, "CommandList", <<>>)
    ELSE IF l.op = NULL_ARG THEN Result(ds, c, "NoCommand", <<>>)
    ELSE IF c = NULL /\ reads_cwd(l) THEN Result(ds, c, "NullDeref", <<>>)
    ELSE IF l.op = "touch" THEN touch_cmd_L2(ds, c, l.a1)
    ELSE IF l.op = "ls" THEN ls_cmd_L2(ds, c, l.a1)
    ELSE IF l.op = "rm" THEN rm_cmd_L2(ds, c, l.a1)
    ELSE IF l.op = "mv" THEN mv_cmd_L2(ds, c, l.a1, l.a2)
    ELSE IF l.op = "chmod"
         THEN [chmod_cmd_L2(ds, r, l.a1, l.a2) EXCEPT !.cwd = c]
    ELSE IF l.op = "mkdir" THEN mkdir_cmd_L2(ds, c, l.a1)
    ELSE IF l.op = "cd" THEN cd_cmd_L2(ds, c, l.a1, r)
    ELSE IF l.op = "pwd" \/ l.op = "pwt" THEN pwd_cmd_L2(ds, c)
    ELSE Result(ds, c, "CommandNotFound", <<>>)

main_L2(ds, c, r, l) ==
    IF l.raw = "" THEN Result(ds, c, "NoCommand", <<>>)
    ELSE IF l.raw = CommandListJp \/ l.raw = CommandListJp2
         THEN Result(ds, c, "CommandList", <<>>)
    ELSE IF l.op = NULL_ARG THEN Result(ds, c, "NoCommand", <<>>)
    ELSE IF c = NULL /\ reads_cwd(l) THEN Result(ds, c, "NullDeref", <<>>)
    ELSE IF l.op = "touch" THEN touch_cmd_L2(ds, c, l.a1)
    ELSE IF l.op = "ls" THEN ls_cmd_L2(ds, c, l.a1)
    ELSE IF l.op = "rm" THEN rm_cmd_L2(ds, c, l.a1)
    ELSE IF l.op = "mv" THEN mv_cmd_L2(ds, c, l.a1, l.a2)
    ELSE IF l.op = "chmod" THEN chmod_cmd_L2(ds, c, l.a1, l.a2)
    ELSE IF l.op = "mkdir" THEN mkdir_cmd_L2(ds, c, l.a1)
    ELSE IF l.op = "cd" THEN cd_cmd_L2(ds, c, l.a1, r)
    ELSE IF l.op = "pwd" \/ l.op = "pwt" THEN pwd_cmd_L2(ds, c)
    ELSE Result(ds, c, "CommandNotFound", <<>>)

\* a line of blanks only leaves cmd NULL, and strcmp(cmd, "exit") reads it
main_LC(ds, c, r, l) ==
    IF l.raw = "" THEN Result(ds, c, "NoCommand", <<>>)
    ELSE IF l.op = NULL_ARG THEN Result(ds, c, "NullDeref", <<>>)
    ELSE IF c = NULL /\ l.op # "chmod" /\ reads_cwd(l)
    THEN Result(ds, c, "NullDeref", <<>>)
    ELSE IF l.op = "pwd" \/ l.op = "pwt" THEN pwd_cmd_LC(ds, c)
    ELSE IF l.op = "ls" THEN ls_cmd_LC(ds, c, l.a1)
    ELSE IF l.op = "touch" THEN touch_cmd_LC(ds, c, l.a1)
    ELSE IF l.op = "rm" THEN rm_cmd_LC(ds, c, l.a1)
    ELSE IF l.op = "mv" THEN mv_cmd_LC(ds, c, l.a1, l.a2)
    ELSE IF l.op = "mkdir" THEN mkdir_cmd_LC(ds, c, l.a1)
    ELSE IF l.op = "cd" THEN cd_cmd_LC(ds, c, l.a1, r)
    ELSE Result(ds, c, "CommandNotFound", <<>>)

Dispatch(v, ds, c, r, l) ==
    IF v = "L2" THEN main_L2(ds, c, r, l) ELSE main_LC(ds, c, r, l)

(***************************************************************************)
(* Teardown: free_dir_recursive / free_dir, one step of the call on top of *)
(* the stack.  A frame is [d, i]: the node and the loop index.  read is    *)
(* the node whose subdir_count and subdirs[i] the step reads (0: none).    *)
(***************************************************************************)
Frame(d, i) == [d |-> d, i |-> i]
Pop(stk) == SubSeq(stk, 1, Len(stk) - 1)

\* the teardown releasing a node before it walks the node's children
free_dir_preorder(ds, stk, rel) ==
    LET f == stk[Len(stk)]
    IN  IF f.d = NULL
        THEN [stack |-> Pop(stk), released |-> rel, read |-> NULL]
        ELSE IF f.i = 0 /\ \A k \in 1..Len(rel) : rel[k] # f.d
        THEN [stack |-> stk, released |-> Append(rel, f.d), read |-> NULL]
        ELSE IF f.i < Len(ds[f.d].subdirs)
        THEN [stack |-> Append(Append(Pop(stk), Frame(f.d, f.i + 1)),
                               Frame(ds[f.d].subdirs[f.i + 1], 0)),
              released |-> rel, read |-> f.d]
        ELSE [stack |-> Pop(stk), released |-> rel, read |-> f.d]

\* the teardown whose loop stops one child short (i < subdir_count - 1)
free_dir_short_loop(ds, stk, rel) ==
    LET f == stk[Len(stk)]
    IN  IF f.d = NULL
        THEN [stack |-> Pop(stk), released |-> rel, read |-> NULL]
        ELSE IF f.i < Len(ds[f.d].subdirs) - 1
        THEN [stack |-> Append(Append(Pop(stk), Frame(f.d, f.i + 1)),
                               Frame(ds[f.d].subdirs[f.i + 1], 0)),
              released |-> rel, read |-> f.d]
        ELSE [stack |-> Pop(stk), released |-> Append(rel, f.d),
              read |-> f.d]

free_dir_recursive(ds, stk, rel) ==
    LET f == stk[Len(stk)]
    IN  IF f.d = NULL
        THEN [stack |-> Pop(stk), released |-> rel, read |-> NULL]
        ELSE IF f.i < Len(ds[f.d].subdirs)
        THEN [stack |-> Append(Append(Pop(stk), Frame(f.d, f.i + 1)),
                               Frame(ds[f.d].subdirs[f.i + 1], 0)),
              released |-> rel, read |-> f.d]
        ELSE [stack |-> Pop(stk), released |-> Append(rel, f.d),
              read |-> f.d]

(***************************************************************************)
(* Inputs                                                                  *)
(***************************************************************************)
TtyFiles == {"a", LongName}
TtyDirs == {"a", ".."}
TtyModes == {"rwxrwxrwx"}
OrNull(S) == S \cup {NULL_ARG}

touchN(i) == Line("touch", "f" \o ToString(i), NULL_ARG)
mkdirN(i) == Line("mkdir", "d" \o ToString(i), NULL_ARG)
Cmd1(op, a) == Line(op, a, NULL_ARG)
Cmd0(op) == Line(op, NULL_ARG, NULL_ARG)

\* mkdir a, cd a, <subtree>, cd .., mkdir b, cd b, <subtree>, cd ..
RECURSIVE BuildTree(_)
BuildTree(depth) ==
    IF depth = 0 THEN <<>>
    ELSE <<Cmd1("mkdir", "a"), Cmd1("cd", "a")>> \o BuildTree(depth - 1)
         \o <<Cmd1("cd", ".."), Cmd1("mkdir", "b"), Cmd1("cd", "b")>>
         \o BuildTree(depth - 1) \o <<Cmd1("cd", "..")>>

FillScript == [i \in 1..(MAX_FILES + 1) |-> touchN(i)] \o <<Cmd0("ls")>>
FillCutScript ==
    <<Cmd1("touch", LongName), Cmd1("touch", CutName)>>
    \o [i \in 1..(MAX_FILES - 1) |-> touchN(i)]
TreeScript == BuildTree(3) \o <<Cmd0("exit")>>
PwdScript ==
    <<Cmd1("mkdir", "a"), Cmd1("cd", "a"), Cmd1("mkdir", "b"),
      Cmd1("cd", "b"), Cmd0("pwd")>>

MiscScript ==
    <<Cmd1("touch", "f1"), Cmd1("mkdir", "d1"), Line("mv", "f1", "d1"),
      Line("mv", "f1", "f1"), Line("mv", "zz", "f1"), Cmd1("touch", "f2"),
      Line("mv", "f1", "f2"), Cmd1("mv", "f1"), Cmd1("touch", "d1"),
      Cmd1("mkdir", "f1"), Cmd1("rm", "d1"), Cmd1("rm", "f1"),
      Cmd1("rm", "f1"), Cmd1("cd", "f2"), Cmd1("cd", "d1"),
      Cmd1("mkdir", ".."), Cmd1("cd", ".."), Cmd1("cd", "..")>>

\* fills the sub-directory collection, then mkdir on a full collection
SubdirFillScript ==
    <<Cmd1("touch", "f1")>> \o [i \in 1..MAX_SUBDIRS |-> mkdirN(i)]
    \o <<Cmd1("mkdir", "d1"), Cmd1("mkdir", "f1"), Cmd1("mkdir", "d17"),
         Cmd0("ls")>>

\* one sub-directory, then a full file collection, then touch on it
DirFillScript ==
    <<Cmd1("mkdir", "dd")>> \o [i \in 1..MAX_FILES |-> touchN(i)]
    \o <<Cmd1("touch", "dd"), Cmd1("touch", "f1"), Cmd1("touch", "g")>>

ChmodScript ==
    <<Cmd1("touch", "f1"), Cmd1("touch", "f2"), Line("chmod", "r--", "f1"),
      Line("chmod", "rwxrwxrwx", "f2"), Line("chmod", "r--", "zz"),
      Cmd1("chmod", "r--"), Cmd1("mkdir", "d1"), Line("chmod", "r--", "d1"),
      Cmd1("ls", "-l"), Line("mv", "f1", "f3"), Cmd1("rm", "f3"),
      Cmd1("touch", "f4"), Cmd0("ls")>>

\* names holding the path separator, and the other way to ask for the list
SlashScript ==
    <<Cmd1("touch", "a/b"), Cmd1("touch", "f1"), Line("mv", "f1", "c/d"),
      Cmd1("mkdir", "x/y"), Cmd1("mkdir", "/"), Cmd1("cd", "x/y"),
      Cmd0("pwd"), Cmd1("cd", ".."), Cmd0("ls"),
      Line("コマンド", "リスト", NULL_ARG), Cmd0("コマンド")>>

\* two siblings, then cd from one to the name of the other
CdScript ==
    <<Cmd1("mkdir", "a"), Cmd1("mkdir", "b"), Cmd1("cd", "a"),
      Cmd1("cd", "b"), Cmd1("mkdir", "c"), Cmd1("cd", "c"), Cmd1("cd", "a"),
      Cmd1("rm", "c"), Cmd1("cd", "/"), Cmd1("rm", "a"), Cmd1("touch", "f"),
      Line("mv", "f", "g"), Cmd0("ls")>>

\* n times: mkdir a, cd a
RECURSIVE Descend(_)
Descend(n) ==
    IF n = 0 THEN <<>>
    ELSE <<Cmd1("mkdir", "a"), Cmd1("cd", "a")>> \o Descend(n - 1)

\* pwd where the chain up to the root has 64 nodes, then where it has 65
DeepScript ==
    Descend(MAX_DEPTH - 1) \o <<Cmd0("pwd")>> \o Descend(1)
    \o <<Cmd0("pwd"), Cmd0("pwt"), Cmd1("cd", "/"), Cmd0("pwd")>>

\* fgets(line, sizeof(line), stdin) on a file whose next line is raw: at
\* most LINE_LEN - 1 bytes are read, the newline (trimmed) among them
fgets(raw) ==
    IF strlen(raw) < LINE_LEN - 1 THEN raw
    ELSE first_bytes(raw, LINE_LEN - 1)

\* a line of the file given by its bytes; the tokens kept with it are those
\* L2.c finds in what the first fgets returns, and ReadScript reads and
\* splits the bytes again as the variant does
RawLine(raw) == [read_line("L2", fgets(raw)) EXCEPT !.raw = raw]

\* what is left of the line for the next fgets: nothing when the newline
\* has been read, else the bytes after the first LINE_LEN - 1
unread(raw) ==
    IF strlen(raw) < LINE_LEN - 1 THEN <<>>
    ELSE <<RawLine(bytes_after(raw, LINE_LEN - 1))>>

Blanks16 == "                "
Blanks(n) ==
    SubSeq(Blanks16 \o Blanks16 \o Blanks16 \o Blanks16 \o Blanks16
           \o Blanks16 \o Blanks16 \o Blanks16, 1, n)

\* lines of LINE_LEN - 1 bytes and more
LongScript ==
    <<RawLine("touch b"),
      RawLine("touch" \o Blanks(122) \o "a"),
      RawLine("ls" \o Blanks(125) \o "rm b"),
      RawLine("touch c" \o Blanks(120)),
      RawLine("ls"),
      RawLine("mkdir d9" \o Blanks(119) \o "exit"),
      RawLine("touch after"), RawLine("ls")>>

\* pwd where the chain has 66 nodes, then commands in the sessions where
\* the stores went unnoticed
OverrunScript ==
    Descend(PARTS_LEN + 1)
    \o <<Cmd1("touch", "mark"), Cmd0("pwd"), Cmd0("ls"), Cmd1("touch", "z"),
         Line("mv", "z", "y"), Cmd1("rm", "y"), Cmd1("mkdir", "q"),
         Cmd1("cd", "q"), Cmd1("cd", ".."), Cmd1("cd", "."), Cmd0("touch"),
         Cmd1("ls", "-l"), Cmd1("cd", "/"), Cmd0("pwd"), Cmd0("ls")>>

BlankLine == "  "

\* names and lines of three-byte characters: a name of 33 bytes, cut inside
\* its last character; the name of its whole characters and a "?", which is
\* another name; a line of 129 bytes in 47 characters
Kana10 == "アイウエオカキクケコ"
KanaScript ==
    <<RawLine("touch " \o Kana10 \o "サ"),
      RawLine("touch " \o Kana10 \o "?"),
      RawLine("ls"),
      RawLine("rm " \o Kana10 \o "?"),
      RawLine("mkdir " \o Kana10 \o "?"),
      RawLine("rm " \o Kana10 \o "サ"),
      RawLine("mkdir " \o Kana10 \o "a" \o Kana10),
      RawLine("cd " \o Kana10 \o "a"),
      RawLine("touch " \o Kana10 \o Kana10 \o Kana10 \o Kana10 \o "サ"),
      RawLine("ls"),
      RawLine("pwd")>>

\* names and lines of characters of two and of four bytes and of carriage
\* returns: names of 32 and 33 bytes cut inside and between characters,
\* lines of 126 bytes (read whole) and of 130 (read in two parts)
Latin4 == "éééé"
Latin16 == Latin4 \o Latin4 \o Latin4 \o Latin4
Latin60 == Latin16 \o Latin16 \o Latin16 \o Latin4 \o Latin4 \o Latin4
Yen15 == "¥¥¥¥¥¥¥¥¥¥¥¥¥¥¥"
Cr11 == "\r\r\r\r\r\r\r\r\r\r\r"
Ext8 == "𰂀𰂁𰂂𰂃𰂄𰂅𰂆𰂇"
Utf8Script ==
    <<RawLine("touch " \o Latin16),
      RawLine("touch ア" \o Yen15),
      RawLine("touch " \o Cr11),
      RawLine("touch " \o Latin60),
      RawLine("ls" \o Latin60 \o Latin4),
      RawLine("touch" \o Blanks(119) \o "a\r"),
      RawLine("touch " \o Ext8),
      RawLine("chmod éééééß a\r"),
      RawLine("ls -l"),
      RawLine("mkdir ア" \o Yen15 \o "ß"),
      RawLine("rm ア" \o Yen15),
      RawLine("mv a\r " \o Ext8),
      RawLine("ls")>>

\* lines with other white space than one blank between the tokens
WhiteScript ==
    <<RawLine("コマンド  リスト"), RawLine("コマンド\tリスト"),
      RawLine("コマンド リスト "), RawLine(" コマンドリスト"),
      RawLine("コマンドリスト"), RawLine("コマンド リスト"), RawLine(""),
      RawLine("touch\ta"), RawLine("  touch   b  "), RawLine("mv  b\tc d"),
      RawLine("ls"), RawLine(BlankLine), RawLine("pwd"), RawLine(" exit")>>

\* every changing command inside a sub-directory, on names the root holds
FrameScript ==
    <<Cmd1("touch", "f"), Cmd1("mkdir", "d"), Cmd1("mkdir", "e"),
      Cmd1("cd", "d"), Cmd1("touch", "g"), Line("chmod", "r--", "f"),
      Line("mv", "g", "f"), Line("chmod", "r-x", "f"), Cmd1("rm", "f"),
      Cmd1("rm", "f"), Cmd1("mkdir", "e"), Cmd1("touch", "h"),
      Line("mv", "f", "h"), Cmd1("cd", ".."), Cmd1("ls", "-l")>>

Scripts == {FillScript, FillCutScript, TreeScript, PwdScript, MiscScript,
            SubdirFillScript, DirFillScript, ChmodScript, SlashScript,
            CdScript, DeepScript, FrameScript, WhiteScript, LongScript,
            OverrunScript, KanaScript, Utf8Script}

(***************************************************************************)
(* The session                                                             *)
(***************************************************************************)
Init ==
    /\ variant \in {"L2", "LC"}
    /\ mode \in {"tty", "script"}
    /\ script \in (IF mode = "tty" THEN {<<>>} ELSE Scripts)
    /\ stdin = script
    /\ heap = <<>>
    /\ dirs = <<create_dir_node("/", NULL)>>
    /\ root = 1
    /\ cwd = 1
    /\ pc = "run"
    /\ cmd = Cmd0("")
    /\ outcome = "None"
    /\ out = <<>>
    /\ stack = <<>>
    /\ released = <<>>
    /\ uaf = FALSE

\* sessions in which one of the first malloc calls returns NULL
TtyHeaps == {<<FALSE>>, <<TRUE, FALSE>>}
ScriptHeaps ==
    {<<FALSE>>, <<TRUE, FALSE>>, <<TRUE, TRUE, FALSE>>,
     <<TRUE, FALSE, FALSE>>, <<TRUE, TRUE, TRUE, FALSE>>}

\* cd into a directory, mkdir there, walk back
AllocScript ==
    <<Cmd1("touch", "f1"), Cmd1("mkdir", "a"), Cmd0("ls"), Cmd1("cd", "a"),
      Cmd1("mkdir", "b"), Cmd1("mkdir", "a"), Cmd1("cd", "a"),
      Cmd1("mkdir", "c"), Cmd0("pwd"), Cmd1("cd", "/"), Cmd1("mkdir", "a"),
      Cmd0("ls"), Cmd0("exit")>>

\* root and cwd are what create_dir_node("/", NULL) returned, NULL included
InitAlloc ==
    /\ variant \in {"L2", "LC"}
    /\ mode \in {"tty", "script"}
    /\ script \in (IF mode = "tty" THEN {<<>>}
                   ELSE {AllocScript, MiscScript, TreeScript})
    /\ stdin = script
    /\ \E h \in (IF mode = "tty" THEN TtyHeaps ELSE ScriptHeaps) :
          /\ heap = after_malloc(h)
          /\ dirs = IF malloc_fails(h) THEN <<>>
                    ELSE <<create_dir_node("/", NULL)>>
          /\ root = IF malloc_fails(h) THEN NULL ELSE 1
          /\ cwd = IF malloc_fails(h) THEN NULL ELSE 1
    /\ pc = "run"
    /\ cmd = Cmd0("")
    /\ outcome = "None"
    /\ out = <<>>
    /\ stack = <<>>
    /\ released = <<>>
    /\ uaf = FALSE

\* tty mode explores trees of at most MaxDirs nodes holding at most
\* MaxTtyFiles files per directory
RECURSIVE CountFiles(_, _)
CountFiles(ds, d) ==
    IF d = 0 THEN 0 ELSE Len(ds[d].files) + CountFiles(ds, d - 1)

WithinBounds(ds) ==
    /\ Len(ds) <= MaxDirs
    /\ CountFiles(ds, Len(ds)) <= MaxTtyFiles

\* where the process is once the handler has returned: reading through NULL
\* kills it; a store past the end of a stack array may go unnoticed, kill it,
\* or hit what main reads again
after_command(oc, p) ==
    IF oc = "NullDeref" THEN {"crashed"}
    ELSE IF oc = "BufferOverflow" THEN {"crashed", "undefined", p}
    ELSE {p}

\* what the handler has printed by then: a process killed in the walk of
\* pwd has printed nothing, one killed when pwd returns has printed the path;
\* one that goes on has printed the path or, when a store has hit depth, the
\* names stored after that: those of the k nodes nearest the root
printed(oc, p, o, ds, c) ==
    IF oc # "BufferOverflow" THEN {o}
    ELSE IF p = "crashed" THEN {<<>>, o}
    ELSE LET parts == collect_parts(ds, c, <<>>, -1)
             n == Len(parts)
         IN  {o} \cup {<<render_parts(SubSeq(parts, n - k + 1, n), k - 1)>> :
                          k \in 0..(n - PARTS_LEN)}

\* one pass of the command loop for the tokenised line l; r is what the
\* handler returns
Run(l) ==
    \E r \in {Dispatch(variant, dirs, cwd, root, l)} :
        /\ dirs' = r.dirs
        /\ cwd' = r.cwd
        /\ outcome' = r.outcome
        /\ pc' \in after_command(r.outcome, pc)
        /\ out' \in printed(r.outcome, pc', r.out, dirs, cwd)
        /\ cmd' = l
        /\ heap' = IF r.outcome = "MemoryError" \/ Len(r.dirs) > Len(dirs)
                   THEN after_malloc(heap) ELSE heap
        /\ UNCHANGED <<variant, mode, script, root, stack, released, uaf>>

\* "exit", or fgets reporting end of input: leave the loop, call the teardown
Leave(l) ==
    /\ pc' = "free"
    /\ stack' = <<Frame(root, 0)>>
    /\ cmd' = l
    /\ outcome' = "Exit"
    /\ out' = <<>>
    /\ UNCHANGED <<variant, mode, script, dirs, heap, root, cwd, released,
                   uaf>>

\* the loop is waiting at the prompt of an interactive session
Prompt == pc = "run" /\ mode = "tty"

Typed(l) ==
    /\ Run(l)
    /\ WithinBounds(dirs')
    /\ UNCHANGED stdin

Touch ==
    /\ Prompt
    /\ \E n \in OrNull(TtyFiles) : Typed(Cmd1("touch", n))

Rm ==
    /\ Prompt
    /\ \E n \in OrNull(TtyFiles) : Typed(Cmd1("rm", n))

Mv ==
    /\ Prompt
    /\ \E s \in OrNull(TtyFiles) : \E d \in OrNull(TtyFiles) :
          (s = NULL_ARG => d = NULL_ARG) /\ Typed(Line("mv", s, d))

Mkdir ==
    /\ Prompt
    /\ \E n \in OrNull(TtyDirs) : Typed(Cmd1("mkdir", n))

Chmod ==
    /\ Prompt
    /\ \E m \in OrNull(TtyModes) : \E n \in OrNull(TtyFiles) :
          (m = NULL_ARG => n = NULL_ARG) /\ Typed(Line("chmod", m, n))

Cd ==
    /\ Prompt
    /\ \E n \in OrNull(TtyDirs) \cup {"/", "."} : Typed(Cmd1("cd", n))

Pwd ==
    /\ Prompt
    /\ \E op \in {"pwd", "pwt"} : Typed(Cmd0(op))

Ls ==
    /\ Prompt
    /\ \E o \in {"-l", NULL_ARG} : Typed(Cmd1("ls", o))

Unknown ==
    /\ Prompt
    /\ \E op \in {"help", CommandListJp} : Typed(Cmd0(op))

\* a line of blanks typed at the prompt
Blank ==
    /\ Prompt
    /\ Typed(read_line(variant, BlankLine))

Exit ==
    /\ Prompt
    /\ \E op \in {"exit", "EOF"} : Leave(Cmd0(op))
    /\ UNCHANGED stdin

\* script mode: the next line of the file, or end of file
ReadScript ==
    /\ pc = "run"
    /\ mode = "script"
    /\ IF stdin = <<>> THEN Leave(Cmd0("EOF")) /\ UNCHANGED stdin
       ELSE LET l == read_line(variant, fgets(Head(stdin).raw))
            IN  /\ stdin' = unread(Head(stdin).raw) \o Tail(stdin)
                /\ IF l.raw # "" /\ l.op = "exit" THEN Leave(l) ELSE Run(l)

FreeStep ==
    /\ pc = "free"
    /\ LET r == free_dir_recursive(dirs, stack, released)
       IN  /\ stack' = r.stack
           /\ released' = r.released
           /\ uaf' = (uaf \/ \E k \in 1..Len(released) : released[k] = r.read)
           /\ pc' = IF r.stack = <<>> THEN "done" ELSE "free"
    /\ UNCHANGED <<variant, mode, script, stdin, dirs, heap, root, cwd, cmd,
                   outcome, out>>

Next ==
    \/ Touch \/ Rm \/ Mv \/ Mkdir \/ Chmod \/ Cd \/ Pwd \/ Ls \/ Unknown \/ Blank
    \/ Exit \/ ReadScript \/ FreeStep

Spec == Init /\ [][Next]_vars

\* the same program where malloc may return NULL
SpecAlloc == InitAlloc /\ [][Next]_vars

TypeOK ==
    /\ variant \in {"L2", "LC"}
    /\ pc \in {"run", "free", "done", "crashed", "undefined"}
    /\ cwd \in 1..Len(dirs)
    /\ root = 1

(***************************************************************************)
(* Properties                                                              *)
(***************************************************************************)
Range(seq) == {seq[i] : i \in 1..Len(seq)}
NoDup(seq) == \A i \in 1..Len(seq) : \A j \in 1..Len(seq) :
                  i < j => seq[i] # seq[j]
IsReleased(d) == \E k \in 1..Len(released) : released[k] = d

\* the stored names of all direct children of d, files then sub-directories
ChildNames(ds, d) == FileNames(ds[d]) \o SubdirNames(ds, ds[d])

\* next[x] holds the nodes one to m links from x: the same for one to 2 * m
Twice(next) ==
    SubSeq([x \in 1..Len(next) |->
               next[x] \cup UNION {next[y] : y \in next[x]}],
           1, Len(next))

\* next[x] holds the nodes one link from x: the nodes one to n links from x
RECURSIVE Reach(_, _)
Reach(next, n) ==
    IF n <= 1 THEN next ELSE Reach(Twice(next), (n + 1) \div 2)

\* the sub-directories of each node
Children(ds) ==
    SubSeq([x \in 1..Len(ds) |-> Range(ds[x].subdirs)], 1, Len(ds))

\* d and the nodes stored below it
Subtree(ds, d) == {d} \cup Reach(Children(ds), Len(ds))[d]

\* C1: in every reachable state no two direct children of a directory
\* (files and sub-directories together) carry the same stored name.
C1_UniqueChildNames ==
    \A d \in 1..Len(dirs) : NoDup(ChildNames(dirs, d))

\* C2: while the command loop runs, the current directory is a node that
\* has not been released and is reached from the root by sub-directory links.
C2_CwdLive ==
    pc = "run" =>
        /\ cwd \in 1..Len(dirs)
        /\ ~IsReleased(cwd)
        /\ cwd \in Subtree(dirs, root)

C2_Witness ==
    /\ pc = "run"
    /\ cmd.op = "cd"
    /\ cwd # root
    /\ dirs[cwd].parent # root

\* "/n1/n2/.../nk" for the node whose ancestors below the root are n1..nk
RECURSIVE PathBelowRoot(_, _)
PathBelowRoot(ds, d) ==
    IF ds[d].parent = NULL THEN ""
    ELSE PathBelowRoot(ds, ds[d].parent) \o "/" \o ds[d].name

AbsolutePath(ds, d) ==
    IF ds[d].parent = NULL THEN "/" ELSE PathBelowRoot(ds, d)

\* C3: pwd prints "/" at the root and otherwise "/n1/.../nk": one leading
\* separator, one separator between segments, none at the end.
C3_PwdRendersPath ==
    (pc = "run" /\ cmd.op \in {"pwd", "pwt"}) =>
        out = <<AbsolutePath(dirs, cwd)>>

RoundTripNames == TtyDirs \cup {LongName, "d1"}

\* C4: from any current directory D, whenever mkdir(n) succeeds, the
\* sequence mkdir(n), cd(n), cd(..) ends with the current directory D.
C4_MkdirCdRoundTrip ==
    pc = "run" =>
        \A n \in RoundTripNames :
            LET r1 == Dispatch(variant, dirs, cwd, root, Cmd1("mkdir", n))
                r2 == Dispatch(variant, r1.dirs, r1.cwd, root, Cmd1("cd", n))
                r3 == Dispatch(variant, r2.dirs, r2.cwd, root,
                               Cmd1("cd", ".."))
            IN  r1.outcome = "Ok" => r3.cwd = cwd

ErrorKinds == {"UsageError", "NameCollision", "CapacityExceeded", "NotFound"}

\* the first MAX_FILES + 1 lines are touch commands with pairwise distinct names
DistinctTouches(sc) ==
    /\ Len(sc) >= MAX_FILES + 1
    /\ \A i \in 1..(MAX_FILES + 1) :
          /\ sc[i].op = "touch"
          /\ sc[i].a1 # NULL_ARG
          /\ \A j \in 1..(MAX_FILES + 1) : i < j => sc[i].a1 # sc[j].a1

\* C5: from a directory with no files, of MAX_FILES + 1 touch commands with
\* pairwise distinct names the first MAX_FILES succeed and the next one fails
\* with CapacityExceeded and leaves the file collection unchanged.
C5_FillToCapacity ==
    [][(mode = "script" /\ pc = "run" /\ stdin # <<>>
        /\ DistinctTouches(script))
       => LET k == Len(script) - Len(stdin) + 1
          IN  /\ k <= MAX_FILES =>
                    outcome' = "Ok" /\ Len(dirs'[cwd].files) = k
              /\ k = MAX_FILES + 1 =>
                    outcome' = "CapacityExceeded" /\ dirs' = dirs]_vars

\* C6: a command that ends in UsageError, NameCollision, CapacityExceeded or
\* NotFound leaves the tree and the current directory as they were, and the
\* command loop goes on.
C6_ErrorsChangeNothing ==
    [][(pc = "run" /\ outcome' \in ErrorKinds)
       => (dirs' = dirs /\ cwd' = cwd /\ pc' = "run")]_vars

C6_Witness ==
    /\ pc = "run"
    /\ cmd.op = "touch"
    /\ outcome = "CapacityExceeded"
    /\ Len(dirs[cwd].files) = MAX_FILES

\* C7: mv(old, new) with old not the name of a file fails with NotFound; with
\* old the name of a file and new already the name of a file or of a
\* sub-directory (new = old included) it fails with NameCollision; in both
\* cases every entry stays as it was.
C7_MvRejects ==
    [][(pc = "run" /\ pc' = "run" /\ cmd'.op = "mv"
        /\ cmd'.a1 # NULL_ARG /\ cmd'.a2 # NULL_ARG)
       => LET fn == Range(FileNames(dirs[cwd]))
              dn == Range(SubdirNames(dirs, dirs[cwd]))
          IN  /\ cmd'.a1 \notin fn =>
                    outcome' = "NotFound" /\ dirs' = dirs
              /\ (cmd'.a1 \in fn /\ cmd'.a2 \in fn \cup dn) =>
                    outcome' = "NameCollision" /\ dirs' = dirs]_vars

C7_Witness ==
    /\ pc = "run"
    /\ cmd.op = "mv"
    /\ outcome = "NameCollision"
    /\ cmd.a1 \in Range(FileNames(dirs[cwd]))
    /\ cmd.a2 \in Range(SubdirNames(dirs, dirs[cwd]))

RoundTripFiles == TtyFiles \cup {"f9"}

\* C8: whenever touch(f) succeeds, touch(f) followed by rm(f) leaves the
\* directory's files and sub-directories as before the touch, and a second
\* rm(f) ends in NotFound.
C8_TouchRmRoundTrip ==
    pc = "run" =>
        \A f \in RoundTripFiles :
            LET r1 == Dispatch(variant, dirs, cwd, root, Cmd1("touch", f))
                r2 == Dispatch(variant, r1.dirs, r1.cwd, root, Cmd1("rm", f))
                r3 == Dispatch(variant, r2.dirs, r2.cwd, root, Cmd1("rm", f))
            IN  r1.outcome = "Ok" =>
                    /\ r2.outcome = "Ok"
                    /\ r2.dirs = dirs
                    /\ r3.outcome = "NotFound"

\* C9: the teardown releases every node after all of its descendants, and no
\* step of it reads subdir_count or subdirs[i] of a node already released.
C9_PostOrderRelease ==
    /\ uaf = FALSE
    /\ \A i \in 1..Len(released) :
          \A x \in Subtree(dirs, released[i]) \ {released[i]} :
              \E j \in 1..(i - 1) : released[j] = x

C9_Witness ==
    /\ pc = "done"
    /\ \E d \in 1..Len(dirs) :
          /\ dirs[d].parent # NULL
          /\ dirs[dirs[d].parent].parent # NULL
          /\ IsReleased(d)
          /\ IsReleased(root)

\* C10: when the session has ended, every node created in it has been
\* released exactly once: as many releases as nodes, none twice, none missing
\* (15 for the tree of depth 3 with two sub-directories per node).
C10_EveryNodeReleasedOnce ==
    /\ NoDup(released)
    /\ pc = "done" =>
          /\ Len(released) = Len(dirs)
          /\ Range(released) = 1..Len(dirs)
    /\ (pc = "done" /\ script = TreeScript) => Len(released) = 15

C10_Witness ==
    /\ pc = "done"
    /\ cmd.op = "exit"
    /\ Len(dirs) = 15
    /\ Len(released) = 15

\* a command step: the loop read the line cmd' and ran its handler
Ran(op) == pc = "run" /\ pc' = "run" /\ cmd'.op = op

SpecialTokens == {"/", "..", "."}

\* C11: cd(name), name not a special token, makes a direct child
\* sub-directory stored under that name the current directory when there is
\* one; otherwise (also when only a file has that name) it ends in NotFound
\* and the current directory stays.  The tree is not changed.
C11_CdByName ==
    [][(Ran("cd") /\ cmd'.a1 \notin SpecialTokens \cup {NULL_ARG})
       => LET subs == dirs[cwd].subdirs
              hits == {i \in 1..Len(subs) : dirs[subs[i]].name = cmd'.a1}
          IN  /\ dirs' = dirs
              /\ hits # {} =>
                    /\ outcome' = "Ok"
                    /\ \E i \in hits : cwd' = subs[i]
                    /\ dirs[cwd'].parent = cwd
              /\ hits = {} =>
                    outcome' = "NotFound" /\ cwd' = cwd]_vars

C11_Witness ==
    /\ pc = "run"
    /\ cmd.op = "cd"
    /\ outcome = "NotFound"
    /\ cwd # root
    /\ cmd.a1 \in Range(FileNames(dirs[cwd]))

\* C12: cd "/" makes the root the current directory; cd ".." makes the
\* parent the current directory and at the root changes nothing, without an
\* error; cd "." changes nothing.  None of the three changes the tree.
C12_CdSpecialTokens ==
    [][(Ran("cd") /\ cmd'.a1 \in SpecialTokens)
       => /\ dirs' = dirs
          /\ outcome' = "Ok"
          /\ cmd'.a1 = "/" => cwd' = root
          /\ cmd'.a1 = "." => cwd' = cwd
          /\ cmd'.a1 = ".." =>
                cwd' = IF cwd = root THEN root ELSE dirs[cwd].parent]_vars

C12_Witness ==
    /\ pc = "run"
    /\ cmd.op = "cd"
    /\ cmd.a1 = ".."
    /\ outcome = "Ok"
    /\ cwd # root
    /\ Len(dirs[cwd].subdirs) >= 1

\* every directory other than the current one is as it was, and the current
\* one keeps its name, parent and sub-directories
OnlyFilesOfCwdChange ==
    /\ Len(dirs') = Len(dirs)
    /\ \A d \in 1..Len(dirs) : d # cwd => dirs'[d] = dirs[d]
    /\ dirs'[cwd].name = dirs[cwd].name
    /\ dirs'[cwd].parent = dirs[cwd].parent
    /\ dirs'[cwd].subdirs = dirs[cwd].subdirs

\* C13: rm(name) on the name of a file removes one file stored under that
\* name: one file fewer, the others with their attributes and order (those
\* behind it one place down), sub-directories untouched.  When no file has
\* the name (also when only a sub-directory has it) rm ends in NotFound and
\* nothing changes.
C13_RmRemovesOne ==
    [][(Ran("rm") /\ cmd'.a1 # NULL_ARG)
       => LET fs == dirs[cwd].files
              gs == dirs'[cwd].files
          IN  IF cmd'.a1 \in Range(FileNames(dirs[cwd]))
              THEN /\ outcome' = "Ok"
                   /\ cwd' = cwd
                   /\ OnlyFilesOfCwdChange
                   /\ Len(gs) = Len(fs) - 1
                   /\ \E k \in 1..Len(fs) :
                         /\ fs[k].name = cmd'.a1
                         /\ \A i \in 1..(k - 1) : gs[i] = fs[i]
                         /\ \A i \in k..Len(gs) : gs[i] = fs[i + 1]
              ELSE /\ outcome' = "NotFound"
                   /\ dirs' = dirs
                   /\ cwd' = cwd]_vars

C13_Witness ==
    /\ pc = "run"
    /\ cmd.op = "rm"
    /\ outcome = "Ok"
    /\ Len(dirs[cwd].files) >= 1
    /\ Len(dirs[cwd].subdirs) >= 1

\* C14: a successful mv(old, new) changes only the name of one file that was
\* stored as old: its size, permission tag, content and position, the number
\* of files, every other file and every sub-directory stay as they were.
C14_MvChangesOnlyName ==
    [][(Ran("mv") /\ outcome' = "Ok")
       => LET fs == dirs[cwd].files
              gs == dirs'[cwd].files
          IN  /\ cwd' = cwd
              /\ OnlyFilesOfCwdChange
              /\ Len(gs) = Len(fs)
              /\ \E k \in 1..Len(fs) :
                    /\ fs[k].name = cmd'.a1
                    /\ gs[k].size = fs[k].size
                    /\ gs[k].perm = fs[k].perm
                    /\ gs[k].content = fs[k].content
                    /\ \A i \in 1..Len(fs) : i # k => gs[i] = fs[i]]_vars

C14_Witness ==
    /\ pc = "run"
    /\ cmd.op = "mv"
    /\ outcome = "Ok"
    /\ Len(dirs[cwd].files) >= 2
    /\ \E i \in 1..Len(dirs[cwd].files) : dirs[cwd].files[i].perm # "rw-"

\* C15: a successful touch appends one file at the end of the current
\* directory's files, with tag "rw-", size 0 and empty content; the files
\* that were there keep their places and attributes.
C15_TouchAppends ==
    [][(Ran("touch") /\ outcome' = "Ok")
       => LET fs == dirs[cwd].files
              gs == dirs'[cwd].files
          IN  /\ cwd' = cwd
              /\ OnlyFilesOfCwdChange
              /\ Len(gs) = Len(fs) + 1
              /\ \A i \in 1..Len(fs) : gs[i] = fs[i]
              /\ gs[Len(gs)].perm = "rw-"
              /\ gs[Len(gs)].size = 0
              /\ gs[Len(gs)].content = ""]_vars

C15_Witness ==
    /\ pc = "run"
    /\ cmd.op = "touch"
    /\ outcome = "Ok"
    /\ Len(dirs[cwd].files) >= 2
    /\ dirs[cwd].files[1].perm # "rw-"

\* C16: a successful mkdir appends one new node at the end of the current
\* directory's sub-directories; the node has no files and no
\* sub-directories and its parent is the directory of the mkdir; the
\* sub-directories that were there keep their places.
C16_MkdirAppends ==
    [][(Ran("mkdir") /\ outcome' = "Ok")
       => LET d == Len(dirs) + 1
          IN  /\ cwd' = cwd
              /\ Len(dirs') = d
              /\ \A e \in 1..Len(dirs) : e # cwd => dirs'[e] = dirs[e]
              /\ dirs'[cwd] =
                    [dirs[cwd] EXCEPT !.subdirs = Append(@, d)]
              /\ \A e \in 1..Len(dirs) :
                    \A i \in 1..Len(dirs[e].subdirs) : dirs[e].subdirs[i] # d
              /\ dirs'[d].files = <<>>
              /\ dirs'[d].subdirs = <<>>
              /\ dirs'[d].parent = cwd]_vars

C16_Witness ==
    /\ pc = "run"
    /\ cmd.op = "mkdir"
    /\ outcome = "Ok"
    /\ cwd # root
    /\ Len(dirs[cwd].subdirs) >= 2
    /\ Len(dirs[dirs[cwd].subdirs[1]].subdirs) >= 1

\* the argument is the stored name of a file or of a sub-directory of cwd
Collides(name) ==
    \/ name \in Range(FileNames(dirs[cwd]))
    \/ name \in Range(SubdirNames(dirs, dirs[cwd]))

\* C17 as claimed: mkdir(name) ends in NameCollision whenever name is the
\* name of a file or sub-directory, whatever the fill level, and in
\* CapacityExceeded when the sub-directory collection is full.
C17_MkdirCollisionAtAnyFill ==
    [][(Ran("mkdir") /\ cmd'.a1 # NULL_ARG)
       => /\ Collides(cmd'.a1) => outcome' = "NameCollision"
          /\ (Len(dirs[cwd].subdirs) >= MAX_SUBDIRS /\ ~Collides(cmd'.a1))
                => outcome' = "CapacityExceeded"]_vars

\* C17 (amended): mkdir(name) ends in CapacityExceeded whenever the
\* sub-directory collection is full, whatever the name, and in NameCollision
\* when the collection is not full and name is the name of a file or of a
\* sub-directory.
C17_MkdirCapacityFirst ==
    [][(Ran("mkdir") /\ cmd'.a1 # NULL_ARG)
       => /\ Len(dirs[cwd].subdirs) >= MAX_SUBDIRS
                => outcome' = "CapacityExceeded"
          /\ (Len(dirs[cwd].subdirs) < MAX_SUBDIRS /\ Collides(cmd'.a1))
                => outcome' = "NameCollision"]_vars

C17_Witness ==
    /\ pc = "run"
    /\ cmd.op = "mkdir"
    /\ outcome = "CapacityExceeded"
    /\ Len(dirs[cwd].subdirs) = MAX_SUBDIRS
    /\ cmd.a1 \in Range(SubdirNames(dirs, dirs[cwd]))

\* C18: touch(name) ends in NameCollision whenever name is the name of a
\* file or of a sub-directory of the current directory, whatever the fill
\* level, and in CapacityExceeded when the file collection is full.
C18_TouchCollisionAtAnyFill ==
    [][(Ran("touch") /\ cmd'.a1 # NULL_ARG)
       => /\ Collides(cmd'.a1) => outcome' = "NameCollision"
          /\ (Len(dirs[cwd].files) >= MAX_FILES /\ ~Collides(cmd'.a1))
                => outcome' = "CapacityExceeded"]_vars

\* the last len bytes of line are text
EndsWith(str, text) ==
    /\ Len(str) >= Len(text)
    /\ SubSeq(str, Len(str) - Len(text) + 1, Len(str)) = text

\* out lists the sub-directories (name and "/") and then the files of cwd,
\* each group in the order of its collection, one line each, nothing else
ListsEntries ==
    LET subs == dirs[cwd].subdirs
        fs == dirs[cwd].files
    IN  /\ Len(out) = Len(subs) + Len(fs)
        /\ \A i \in 1..Len(subs) :
              IF cmd.a1 = "-l" THEN EndsWith(out[i], dirs[subs[i]].name \o "/")
              ELSE out[i] = dirs[subs[i]].name \o "/"
        /\ \A i \in 1..Len(fs) :
              IF cmd.a1 = "-l"
              THEN EndsWith(out[Len(subs) + i], " " \o fs[i].name)
              ELSE out[Len(subs) + i] = fs[i].name

IsEmptyDir(d) == Len(dirs[d].subdirs) = 0 /\ Len(dirs[d].files) = 0

\* C19 as claimed: ls prints the sub-directories and then the files, one
\* line per entry and nothing else, so nothing at all in an empty directory.
C19_LsListsEntriesOnly ==
    (pc = "run" /\ cmd.op = "ls") => ListsEntries

\* C20: in L2.c, chmod(tag, name) on the name of a file overwrites the tag of
\* one file stored under that name with the first 7 bytes of tag at most and
\* changes nothing else; when no file has the name it ends in NotFound and
\* changes nothing.
C20_ChmodChangesOnlyTag ==
    [][(Ran("chmod") /\ variant = "L2"
        /\ cmd'.a1 # NULL_ARG /\ cmd'.a2 # NULL_ARG)
       => LET fs == dirs[cwd].files
              gs == dirs'[cwd].files
              tag == cmd'.a1
          IN  IF cmd'.a2 \in Range(FileNames(dirs[cwd]))
              THEN /\ outcome' = "Ok"
                   /\ cwd' = cwd
                   /\ OnlyFilesOfCwdChange
                   /\ Len(gs) = Len(fs)
                   /\ \E k \in 1..Len(fs) :
                         /\ fs[k].name = cmd'.a2
                         /\ gs[k] = [fs[k] EXCEPT !.perm =
                                       first_bytes(tag, PERM_LEN - 1)]
                         /\ strlen(gs[k].perm) <= PERM_LEN - 1
                         /\ \A i \in 1..Len(fs) : i # k => gs[i] = fs[i]
              ELSE /\ outcome' = "NotFound"
                   /\ dirs' = dirs
                   /\ cwd' = cwd]_vars

C20_Witness ==
    /\ pc = "run"
    /\ variant = "L2"
    /\ cmd.op = "chmod"
    /\ outcome = "Ok"
    /\ Len(cmd.a1) > 7
    /\ Len(dirs[cwd].files) >= 2
    /\ \E i \in 1..Len(dirs[cwd].files) : dirs[cwd].files[i].perm = "rwxrwxr"

CommandTokens ==
    {"touch", "ls", "rm", "mv", "mkdir", "cd", "pwd", "pwt", "chmod"}

\* C21: each of the tokens touch, ls, rm, mv, mkdir, cd, pwd, pwt and chmod
\* is dispatched to its operation, pwt printing what pwd prints; every
\* other token is answered "command not found" and leaves the tree and the
\* current directory as they were.
C21_Dispatch ==
    [][(pc = "run" /\ pc' = "run" /\ cmd' # cmd /\ cmd'.op # NULL_ARG)
       => IF cmd'.op \in CommandTokens
          THEN /\ outcome' # "CommandNotFound"
               /\ cmd'.op = "pwt" =>
                     out' = Dispatch(variant, dirs, cwd, root, Cmd0("pwd")).out
          ELSE /\ outcome' = "CommandNotFound"
               /\ dirs' = dirs
               /\ cwd' = cwd]_vars

\* mkdir got as far as calling malloc
AllocAttempted ==
    /\ cwd # NULL
    /\ cmd'.a1 # NULL_ARG
    /\ Len(dirs[cwd].subdirs) < MAX_SUBDIRS
    /\ ~Collides(cmd'.a1)

\* C22: when malloc returns NULL during mkdir, the command ends in the memory
\* error, an outcome no other condition produces, and the tree (the
\* sub-directories of the current directory included) and the current
\* directory are exactly as before.
C22_MkdirNoMemory ==
    [][Ran("mkdir")
       => /\ (AllocAttempted /\ malloc_fails(heap)) <=> outcome' = "MemoryError"
          /\ outcome' = "MemoryError" => (dirs' = dirs /\ cwd' = cwd)]_vars

C22_Witness ==
    /\ pc = "run"
    /\ cmd.op = "mkdir"
    /\ outcome = "MemoryError"
    /\ cwd # root
    /\ Len(dirs[root].subdirs) >= 1

\* C23: when malloc returns NULL for the root, the failure is reported as an
\* allocation failure and no command is ever run with a NULL root or a NULL
\* current directory.
C23_NoCommandOnNullRoot ==
    cmd.op \notin {"", NULL_ARG, "exit", "EOF"} =>
        /\ root # NULL
        /\ cwd # NULL

HasSlash(str) == \E i \in 1..Len(str) : SubSeq(str, i, i) = "/"

WellFormedName(str) ==
    /\ strlen(str) >= 1
    /\ strlen(str) <= NAME_LEN - 1
    /\ ~HasSlash(str)

\* C24: in every reachable state every stored file name and every stored
\* name of a directory other than the root is non-empty, at most
\* NAME_LEN - 1 = 31 bytes long and free of the path separator "/".
C24_WellFormedNames ==
    \A d \in 1..Len(dirs) :
        /\ d # root => WellFormedName(dirs[d].name)
        /\ \A i \in 1..Len(dirs[d].files) :
              WellFormedName(dirs[d].files[i].name)

\* C25: in every reachable state each directory holds at most MAX_FILES
\* files and at most MAX_SUBDIRS sub-directories: no touch or mkdir stores an
\* entry past the end of files[] or subdirs[].
C25_CountsWithinCapacity ==
    \A d \in 1..Len(dirs) :
        /\ Len(dirs[d].files) \in 0..MAX_FILES
        /\ Len(dirs[d].subdirs) \in 0..MAX_SUBDIRS

C25_Witness ==
    /\ pc = "run"
    /\ cmd.op = "touch"
    /\ outcome = "CapacityExceeded"
    /\ Len(dirs[cwd].files) = MAX_FILES

\* the pairs (directory, position) at which d is stored as a sub-directory
Occurrences(d) ==
    UNION {{<<e, i>> : i \in {j \in 1..Len(dirs[e].subdirs) :
                                  dirs[e].subdirs[j] = d}} :
           e \in 1..Len(dirs)}

\* the nodes met by following the parent links from each node
Above(ds) ==
    Reach(SubSeq([x \in 1..Len(ds) |->
                     IF ds[x].parent = NULL THEN {} ELSE {ds[x].parent}],
                 1, Len(ds)), Len(ds))

\* the nodes without a parent among d and the nodes above it
Ends(ds, above, d) == {a \in above[d] \cup {d} : ds[a].parent = NULL}

StepsUp(ds, above, d, fuel) ==
    IF Ends(ds, above, d) = {} \/ Cardinality(above[d]) > fuel THEN -1
    ELSE Cardinality(above[d])

\* parent links followed from d until the node without a parent; -1 when
\* fuel links were followed without meeting it
ClimbSteps(ds, d, fuel) == StepsUp(ds, Above(ds), d, fuel)

TopOf(ds, above, d, fuel) ==
    IF Ends(ds, above, d) = {} \/ Cardinality(above[d]) > fuel THEN d
    ELSE CHOOSE a \in Ends(ds, above, d) : TRUE

\* the top of the parent chain of d (d itself when fuel runs out)
Top(ds, d, fuel) == TopOf(ds, Above(ds), d, fuel)

\* the parent links from every node lead to the root, given the nodes above
\* each
LeadToRoot(above) ==
    \A d \in 1..Len(dirs) :
        /\ StepsUp(dirs, above, d, Len(dirs)) >= 0
        /\ TopOf(dirs, above, d, Len(dirs)) = root

\* some node is n parent links from the node without a parent
SomeAtDepth(above, n) ==
    \E d \in 1..Len(dirs) : StepsUp(dirs, above, d, Len(dirs)) = n

\* C26: in every reachable state the directories form a tree: the root has
\* no parent; every other node has a parent, is stored exactly once among
\* all sub-directory collections, namely in its parent's; and the parent
\* links from any node lead to the root.
C26_Tree ==
    /\ dirs[root].parent = NULL
    /\ Occurrences(root) = {}
    /\ \A d \in 1..Len(dirs) :
          /\ d # root =>
                /\ dirs[d].parent \in 1..Len(dirs)
                /\ Cardinality(Occurrences(d)) = 1
                /\ \A p \in Occurrences(d) : p[1] = dirs[d].parent
    /\ LeadToRoot(Above(dirs))

C26_Witness ==
    /\ pc = "run"
    /\ Len(dirs) >= 15
    /\ SomeAtDepth(Above(dirs), 3)

\* C27: only cd changes the current directory, and one cd moves it to the
\* root, to itself, to its parent or to one of its own sub-directories.
C27_CwdMovesOnlyByCd ==
    [][pc = "run"
       => /\ cwd' # cwd => cmd'.op = "cd"
          /\ cwd' \in {root, cwd}
                \cup (IF dirs[cwd].parent # NULL THEN {dirs[cwd].parent}
                      ELSE {})
                \cup Range(dirs[cwd].subdirs)]_vars

C27_Witness ==
    /\ pc = "run"
    /\ cmd.op = "cd"
    /\ outcome = "NotFound"
    /\ cwd # root
    /\ \E i \in 1..Len(dirs[root].subdirs) :
          dirs[dirs[root].subdirs[i]].name = cmd.a1

\* the names from d up to the root, d's first
Chain(d) == collect_parts(dirs, d, <<>>, -1)

\* C28: the walk of pwd never stores more than 64 entries in its 64-slot
\* buffer; when the chain from the current directory up to the root has
\* more than 64 nodes, what is printed is cut to the 64 nearest names.
C28_PwdWalkBounded ==
    (pc \in {"run", "crashed"} /\ cmd.op \in {"pwd", "pwt"}) =>
        /\ outcome = "Ok"
        /\ Len(Chain(cwd)) > MAX_DEPTH =>
              out = <<render_parts(SubSeq(Chain(cwd), 1, MAX_DEPTH),
                                   MAX_DEPTH - 1)>>

\* the nodes from top down to the one that stores d, given the nodes below
\* each; -1 when d is not below top
LinksDown(below, top, d) ==
    IF d = top THEN 0
    ELSE IF d \notin below[top] THEN -1
    ELSE Cardinality({a \in below[top] \cup {top} : d \in below[a]})

\* the number of sub-directory links from top down to d; -1 when d is not
\* below top
DepthBelow(ds, top, d) ==
    LinksDown(Reach(Children(ds), Len(ds)), top, d)


IsPrefix(s, t) == Len(s) <= Len(t) /\ SubSeq(t, 1, Len(s)) = s

\* C30: while the command loop runs, no step removes, releases, renames or
\* re-parents a directory or changes its position among its siblings:
\* nodes are only added, and released only by the teardown.
C30_NodesOnlyGrow ==
    [][pc = "run"
       => /\ Len(dirs') >= Len(dirs)
          /\ \A d \in 1..Len(dirs) :
                /\ dirs'[d].name = dirs[d].name
                /\ dirs'[d].parent = dirs[d].parent
                /\ IsPrefix(dirs[d].subdirs, dirs'[d].subdirs)
          /\ released = <<>>
          /\ released' = <<>>]_vars

C30_Witness ==
    /\ pc = "run"
    /\ cmd.op = "rm"
    /\ outcome = "NotFound"
    /\ cwd = root
    /\ Len(dirs) >= 4
    /\ cmd.a1 \in Range(SubdirNames(dirs, dirs[root]))

MutatingTokens == {"touch", "rm", "mv", "mkdir", "chmod"}

\* C31: a touch, rm, mv, mkdir or chmod changes nothing but the files and
\* the sub-directories of the current directory: every other node of the
\* tree, and the name and the parent of the current directory, stay as
\* they were.
C31_OnlyCwdChanges ==
    [][(pc = "run" /\ cmd'.op \in MutatingTokens)
       => /\ Len(dirs') >= Len(dirs)
          /\ \A d \in 1..Len(dirs) : d # cwd => dirs'[d] = dirs[d]
          /\ dirs'[cwd].name = dirs[cwd].name
          /\ dirs'[cwd].parent = dirs[cwd].parent]_vars

C31_Witness ==
    /\ pc = "run"
    /\ variant = "L2"
    /\ cmd.op = "chmod"
    /\ outcome = "NotFound"
    /\ cwd # root
    /\ cmd.a2 \in Range(FileNames(dirs[root]))
    /\ Len(dirs[cwd].files) >= 1

SharedTokens == {"touch", "rm", "mv", "mkdir", "cd", "ls", "pwd"}

\* the lines of the shared commands that may be read next
NextLines ==
    IF mode = "script"
    THEN (IF /\ stdin # <<>>
             /\ Head(stdin).op \in SharedTokens
             /\ read_line("L2", Head(stdin).raw) = Head(stdin)
             /\ read_line("LC", Head(stdin).raw) = Head(stdin)
          THEN {Head(stdin)} ELSE {})
    ELSE {Cmd1(op, n) : op \in {"touch", "rm"}, n \in OrNull(TtyFiles)}
         \cup {Line("mv", n, m) : n \in TtyFiles, m \in OrNull(TtyFiles)}
         \cup {Cmd1("mkdir", n) : n \in OrNull(TtyDirs)}
         \cup {Cmd1("cd", n) : n \in OrNull(TtyDirs) \cup {"/", "."}}
         \cup {Cmd1("ls", "-l"), Cmd0("ls"), Cmd0("pwd")}

\* C32: L2.c and linux-commands.c, given the same touch, rm, mv, mkdir, cd,
\* ls and pwd commands from a fresh root, hold the same tree and the same
\* current directory after every command and report the same kind of
\* outcome for it: from a state both have reached, the next command leaves
\* both in the same state with the same outcome.
C32_VariantsAgree ==
    pc = "run" =>
        \A l \in NextLines :
            LET a == main_L2(dirs, cwd, root, l)
                b == main_LC(dirs, cwd, root, l)
            IN  /\ a.dirs = b.dirs
                /\ a.cwd = b.cwd
                /\ a.outcome = b.outcome

====
